---- MODULE Spec2Model ----
(***************************************************************************)
(* Review-validation service: the review endpoints of                      *)
(* backend/routes/v1/reviews.py and the metrics endpoint of                *)
(* backend/routes/v1/metrics.py over the warehouse client of               *)
(* backend/databricks_client.py.                                           *)
(*                                                                         *)
(* Spec is the service under concurrent requests and failing warehouse     *)
(* calls.  PureSpec calls the row conversions and the upsert builder on    *)
(* their own, on arguments drawn from bounded sets.  WriterSpec is one     *)
(* caller of the three writer entry points of the warehouse client, each   *)
(* with the model version it defaults to.                                  *)
(*                                                                         *)
(* Conventions of the model                                                *)
(*  - A Python / SQL value is a tagged record [t |-> tag, v |-> payload];  *)
(*    the tag is the dynamic type that isinstance() and truthiness see.    *)
(*  - A string is a sequence of chunks.  A single quote is always a chunk  *)
(*    of its own; relevancy strings are written one character per chunk,   *)
(*    so lower() and the substring test are computed, not looked up.       *)
(*  - A JSON text is a string whose content is kept as the list of dicts   *)
(*    it encodes (tag "json").                                             *)
(*  - Floats are kept in hundredths (0.51 is 51).                          *)
(*  - The seven legacy aspect columns of the evaluation table, which the   *)
(*    upsert always writes as NULL, are left out of the rows.              *)
(***************************************************************************)
EXTENDS Integers, Sequences, FiniteSets, TLC

(***************************************************************************)
(* Bounds                                                                  *)
(***************************************************************************)
\* requests started in one behaviour
MaxRequests == 2

\* the longest group of flattened rows a conversion is called with
MaxRows == 2

\* calls of a writer entry point in one behaviour of WriterSpec
MaxWrites == 2

(***************************************************************************)
(* Python values                                                           *)
(***************************************************************************)
None == [t |-> "none"]
PyStr(s) == [t |-> "str", v |-> s]
PyBool(b) == [t |-> "bool", v |-> b]
PyInt(n) == [t |-> "int", v |-> n]
PyFloat(n) == [t |-> "float", v |-> n]
PyDateTime(d) == [t |-> "datetime", v |-> d]
PyList(l) == [t |-> "list", v |-> l]
PyJson(l) == [t |-> "json", v |-> l]

\* Python truthiness of a value (used by `x or y`, `if x:` and bool(x))
Truthy(x) ==
    CASE x.t = "none" -> FALSE
      [] x.t = "bool" -> x.v
      [] x.t \in {"int", "float"} -> x.v # 0
      [] x.t \in {"str", "list"} -> x.v # <<>>
      [] x.t = "json" -> TRUE
      [] OTHER -> TRUE

\* x or y
PyOr(x, y) == IF Truthy(x) THEN x ELSE y

\* d.get(k, default) on a dict modelled as a function over its keys
Get(d, k, default) == IF k \in DOMAIN d THEN d[k] ELSE default

(***************************************************************************)
(* Strings                                                                 *)
(***************************************************************************)
UpperCase == <<"A","B","C","D","E","F","G","H","I","J","K","L","M",
               "N","O","P","Q","R","S","T","U","V","W","X","Y","Z">>
LowerCase == <<"a","b","c","d","e","f","g","h","i","j","k","l","m",
               "n","o","p","q","r","s","t","u","v","w","x","y","z">>

\* a comparison that keeps the case of the text
LowerChar_KeepsCase(c) == c

\* the lower-case form of one character
LowerChar(c) ==
    IF \E i \in DOMAIN UpperCase : UpperCase[i] = c
    THEN LowerCase[CHOOSE i \in DOMAIN UpperCase : UpperCase[i] = c]
    ELSE c

RECURSIVE Lower(_)
\* str.lower(): character-wise on one-character chunks
Lower(s) ==
    IF s = <<>> THEN <<>>
    ELSE <<LowerChar(Head(s))>> \o Lower(Tail(s))

\* sub in s
Contains(s, sub) ==
    \E i \in 1..(Len(s) - Len(sub) + 1) : SubSeq(s, i, i + Len(sub) - 1) = sub

STR_irrelevant == <<"i","r","r","e","l","e","v","a","n","t">>
STR_nonsense == <<"n","o","n","s","e","n","s","e">>
STR_useful == <<"u","s","e","f","u","l">>
STR_profane_but_useful ==
    <<"p","r","o","f","a","n","e"," ","b","u","t"," ","u","s","e","f","u","l">>
STR_nonsense_or_irrelevant ==
    <<"n","o","n","s","e","n","s","e"," ","o","r"," ",
      "i","r","r","e","l","e","v","a","n","t">>

(***************************************************************************)
(* HTTP outcomes                                                           *)
(***************************************************************************)
HttpError(code, detail) == [http_error |-> code, detail |-> detail]
IsError(r) == "http_error" \in DOMAIN r

(***************************************************************************)
(* Source table (BACKEND_DATA_TABLE): immutable, one row per               *)
(* (survey response, category, subcategory), as the SELECT aliases of      *)
(* query_reviews_table / get_review_detail name the columns.               *)
(***************************************************************************)
SrcRow(id, qlabel, qresp, relevancy, profane, rewritten, olabel, oscore, cat, clabel, cscore, sub, slabel, sscore, store, visit) ==
    [response_id |-> PyStr(id), question_label |-> qlabel,
     question_response |-> qresp, response_relevancy |-> relevancy,
     profane |-> profane, rewritten_comment |-> rewritten,
     overall_sentiment_label |-> olabel, overall_sentiment_score |-> oscore,
     comment_category |-> cat, category_sentiment_label |-> clabel,
     category_sentiment_score |-> cscore, comment_subcategory |-> sub,
     subcategory_sentiment_label |-> slabel,
     subcategory_sentiment_score |-> sscore,
     store_key |-> store, visit_datetime |-> visit]

\* S1: two category rows, classified irrelevant by the pipeline;
\* S2: one category row, profane and rewritten, no store / visit recorded;
\* S3: one row whose overall and category scores are NULL, which no
\* conversion accepts.
BackendRows ==
    << SrcRow(<<"S1">>, PyStr(<<"COMMENT">>), PyStr(<<"it", "'", "s ok">>),
              PyStr(STR_nonsense_or_irrelevant), PyBool(FALSE), None,
              PyStr(<<"Negative">>), PyInt(2),
              PyStr(<<"Food">>), PyStr(<<"Positive">>), PyFloat(51),
              PyStr(<<"Quality">>), PyStr(<<"Positive">>), PyFloat(40),
              PyStr(<<"12">>), PyDateTime(7)),
       SrcRow(<<"S1">>, PyStr(<<"COMMENT">>), PyStr(<<"it", "'", "s ok">>),
              PyStr(STR_nonsense_or_irrelevant), PyBool(FALSE), None,
              PyStr(<<"Negative">>), PyInt(2),
              PyStr(<<"Service">>), PyStr(<<"Negative">>), PyFloat(-30),
              PyStr(<<>>), PyStr(<<"Neutral">>), PyFloat(0),
              PyStr(<<"12">>), PyDateTime(7)),
       SrcRow(<<"S2">>, PyStr(<<"COMMENT">>), PyStr(<<"damn slow">>),
              PyStr(STR_profane_but_useful), PyBool(TRUE),
              PyStr(<<"very slow">>),
              PyStr(<<"Positive">>), PyInt(4),
              PyStr(<<"Service">>), PyStr(<<"Negative">>), PyFloat(-50),
              PyStr(<<"Slow Service">>), PyStr(<<"Negative">>), PyFloat(-50),
              None, None),
       SrcRow(<<"S3">>, PyStr(<<"COMMENT">>), PyStr(<<"fine">>),
              PyStr(STR_useful), PyBool(FALSE), None,
              PyStr(<<"Positive">>), None,
              PyStr(<<"Food">>), PyStr(<<"Positive">>), None,
              PyStr(<<"Quality">>), PyStr(<<"Positive">>), PyFloat(60),
              PyStr(<<"12">>), PyDateTime(7)) >>

\* SELECT ... WHERE SurveyResponseId = id, in table order
RowsOf(id) == LET Match(r) == r.response_id = PyStr(id)
              IN SelectSeq(BackendRows, Match)
SourceIds == {BackendRows[i].response_id.v : i \in DOMAIN BackendRows}

(***************************************************************************)
(* models.py                                                               *)
(***************************************************************************)
CategorySentiment(cat, clabel, cscore, sub, slabel, sscore) ==
    [category |-> cat, category_sentiment_label |-> clabel,
     category_sentiment_score |-> cscore, subcategory |-> sub,
     subcategory_sentiment_label |-> slabel,
     subcategory_sentiment_score |-> sscore]

SentimentAnalysis(irrelevant, aspects, cats) ==
    [irrelevant |-> irrelevant, aspects |-> aspects,
     category_sentiments |-> cats]

\* ReviewSummary with its field defaults (created_at, store_id, overall_*,
\* category_sentiments default to None; status to random_sample)
ReviewSummary(id, qlabel, qresp, relevant, pcheck, profane, rewritten, sa, status, store, olabel, oscore, cats, created) ==
    [response_id |-> id, question_label |-> qlabel,
     question_response |-> qresp, relevant_comments |-> relevant,
     profanity_check |-> pcheck, profane |-> profane,
     rewritten_comment |-> rewritten, sentiment_analysis |-> sa,
     status |-> status, store_id |-> store,
     overall_sentiment_label |-> olabel, overall_sentiment_score |-> oscore,
     category_sentiments |-> cats, created_at |-> created]

\* ReviewDetail(**summary.dict(), validation_status=..., user_corrections=None,
\* accuracy_score=None)
ReviewDetail(summary, vstatus) ==
    [response_id |-> summary.response_id,
     question_label |-> summary.question_label,
     question_response |-> summary.question_response,
     relevant_comments |-> summary.relevant_comments,
     profanity_check |-> summary.profanity_check,
     profane |-> summary.profane,
     rewritten_comment |-> summary.rewritten_comment,
     sentiment_analysis |-> summary.sentiment_analysis,
     status |-> summary.status, store_id |-> summary.store_id,
     overall_sentiment_label |-> summary.overall_sentiment_label,
     overall_sentiment_score |-> summary.overall_sentiment_score,
     category_sentiments |-> summary.category_sentiments,
     created_at |-> summary.created_at,
     validation_status |-> vstatus, user_corrections |-> None,
     accuracy_score |-> None]

(***************************************************************************)
(* mock_data.py                                                            *)
(***************************************************************************)
Aspects(pricing, other, food, wait, service, clean, ambiance) ==
    [Pricing |-> pricing, Other |-> other, Food_and_Beverage |-> food,
     Wait_Time |-> wait, Service |-> service, Cleanliness |-> clean,
     Ambiance |-> ambiance]

\* One entry of MOCK_REVIEWS; created_at is in minutes relative to import time
MockReview(id, qlabel, text, pcheck, profane, rewritten, sa, created, store, status, vstatus) ==
    ReviewDetail(
        ReviewSummary(id, PyStr(qlabel), PyStr(text), PyStr(text),
                      PyBool(pcheck), PyBool(profane), rewritten, sa, status,
                      PyStr(store), None, None, None, PyDateTime(created)),
        PyStr(vstatus))

MOCK_REVIEWS ==
    << MockReview(<<"R001">>, <<"Overall Experience">>,
         <<"The food was absolutely amazing! The steak was cooked perfectly and the service was outstanding. Will definitely come back!">>,
         FALSE, FALSE, None,
         SentimentAnalysis(PyBool(FALSE),
            Aspects(None, None, PyFloat(90), None, PyFloat(80), None,
                    PyFloat(70)), None),
         -120, <<"STORE_001">>, "random_sample", <<"pending">>),
       MockReview(<<"R002">>, <<"Service Quality">>,
         <<"The waitress was rude and took forever to take our order. Food was cold when it arrived.">>,
         FALSE, FALSE, None,
         SentimentAnalysis(PyBool(FALSE),
            Aspects(None, None, PyFloat(-60), PyFloat(-80), PyFloat(-90),
                    None, None), None),
         -60, <<"STORE_002">>, "random_sample", <<"pending">>),
       MockReview(<<"R003">>, <<"Food Quality">>,
         <<"The damn food was terrible and the fucking service sucked ass!">>,
         TRUE, TRUE,
         PyStr(<<"The food was terrible and the service was very poor!">>),
         SentimentAnalysis(PyBool(FALSE),
            Aspects(None, None, PyFloat(-90), None, PyFloat(-80), None, None),
            None),
         -30, <<"STORE_001">>, "random_sample", <<"pending">>),
       MockReview(<<"R004">>, <<"Value">>,
         <<"Great value for money! The portions were huge and prices reasonable.">>,
         FALSE, FALSE, None,
         SentimentAnalysis(PyBool(FALSE),
            Aspects(PyFloat(90), None, PyFloat(70), None, None, None, None),
            None),
         -15, <<"STORE_003">>, "random_sample", <<"pending">>),
       MockReview(<<"R005">>, <<"Atmosphere">>,
         <<"The restaurant was okay, nothing special. Average food, average service.">>,
         FALSE, FALSE, None,
         SentimentAnalysis(PyBool(FALSE),
            Aspects(None, None, PyFloat(0), None, PyFloat(0), None,
                    PyFloat(0)), None),
         -5, <<"STORE_002">>, "random_sample", <<"pending">>),
       MockReview(<<"R006">>, <<"Irrelevant Comment">>,
         <<"What time does the mall close?">>,
         FALSE, FALSE, None,
         SentimentAnalysis(PyBool(TRUE), None, None),
         -45, <<"STORE_001">>, "random_sample", <<"pending">>),
       [MockReview(<<"C001">>, <<"Completed Review">>,
         <<"The service was excellent and food was great!">>,
         FALSE, FALSE, None,
         SentimentAnalysis(PyBool(FALSE),
            Aspects(None, None, PyFloat(80), None, PyFloat(90), None, None),
            None),
         -180, <<"STORE_001">>, "completed", <<"completed">>)
        EXCEPT !.accuracy_score = PyFloat(95)],
       MockReview(<<"REC001">>, <<"Recommended Review">>,
         <<"The ambiance was terrible but food was okay.">>,
         FALSE, FALSE, None,
         SentimentAnalysis(PyBool(FALSE),
            Aspects(None, None, PyFloat(20), None, None, None, PyFloat(-80)),
            None),
         -60, <<"STORE_002">>, "recommended", <<"pending">>) >>

MockIds == {MOCK_REVIEWS[i].response_id : i \in DOMAIN MOCK_REVIEWS}

\* a lookup that answers with the first entry whatever the id
get_mock_review_by_id_First(review_id, validated) == MOCK_REVIEWS[1]

\* get_mock_review_by_id: the list entry itself, carrying the validation_status
\* that the mock branch of validate_review may have set on it; None if absent
get_mock_review_by_id(review_id, validated) ==
    LET hits == {i \in DOMAIN MOCK_REVIEWS :
                    MOCK_REVIEWS[i].response_id = review_id}
    IN IF hits = {} THEN None
       ELSE LET i == CHOOSE j \in hits : \A k \in hits : j <= k
            IN IF review_id \in validated
               THEN [MOCK_REVIEWS[i] EXCEPT
                        !.validation_status = PyStr(<<"validated">>)]
               ELSE MOCK_REVIEWS[i]

\* get_mock_reviews: status filter, then the slice [offset : offset + limit]
get_mock_reviews(limit, offset, status, validated) ==
    LET HasStatus(r) == r.status = status
        filtered == SelectSeq(MOCK_REVIEWS, HasStatus)
        lo == offset + 1
        hi == IF offset + limit < Len(filtered) THEN offset + limit
              ELSE Len(filtered)
        slice == SubSeq(filtered, lo, hi)
    IN [i \in DOMAIN slice |->
          get_mock_review_by_id(slice[i].response_id, validated)]

(***************************************************************************)
(* Row conversion (routes/v1/reviews.py)                                   *)
(***************************************************************************)
\* float(x) of a numeric column value
PyToFloat(x) == PyFloat(x.v)

\* a threshold that 0.5 itself passes
Extreme_AtLeastHalf(score) ==
    (IF score.v < 0 THEN 0 - score.v ELSE score.v) >= 50

\* abs(x) > 0.5, on hundredths
Extreme(score) == (IF score.v < 0 THEN 0 - score.v ELSE score.v) > 50

\* a conversion that asks for a category only
SentimentRows_CategoryOnly(db_rows) ==
    LET HasCategory(row) == Truthy(row.comment_category)
    IN SelectSeq(db_rows, HasCategory)

\* the rows of a group that carry both a category and a subcategory
SentimentRows(db_rows) ==
    LET Both(row) == Truthy(row.comment_category)
                     /\ Truthy(row.comment_subcategory)
    IN SelectSeq(db_rows, Both)

\* the conditions under which the body of convert_flattened_rows_to_review
\* raises: no rows, mixed ids, a relevancy that is not a string (.lower()),
\* a score float() rejects, or a field pydantic rejects for a required str
FlattenedConversionRaises(db_rows) ==
    \/ db_rows = <<>>
    \/ \E i \in DOMAIN db_rows : db_rows[i].response_id # db_rows[1].response_id
    \/ \E i \in DOMAIN SentimentRows(db_rows) :
         LET row == SentimentRows(db_rows)[i]
         IN \/ row.category_sentiment_label.t # "str"
            \/ row.subcategory_sentiment_label.t # "str"
            \/ row.category_sentiment_score.t \notin {"int", "float"}
            \/ row.subcategory_sentiment_score.t \notin {"int", "float"}
    \/ db_rows[1].response_relevancy.t # "str"
    \/ db_rows[1].question_label.t # "str"
    \/ db_rows[1].question_response.t # "str"

\* is_irrelevant of the first row's relevancy string
IsIrrelevant(relevancy) ==
    LET response_relevancy == Lower(relevancy)
    IN Contains(response_relevancy, STR_irrelevant)
       \/ Contains(response_relevancy, STR_nonsense)

convert_flattened_rows_to_review(db_rows) ==
    IF FlattenedConversionRaises(db_rows)
    THEN HttpError(500, "Data conversion error")
    ELSE
    LET first_row == db_rows[1]
        srows == SentimentRows(db_rows)
        category_sentiments ==
            [i \in DOMAIN srows |->
                CategorySentiment(srows[i].comment_category,
                                  srows[i].category_sentiment_label,
                                  PyToFloat(srows[i].category_sentiment_score),
                                  srows[i].comment_subcategory,
                                  srows[i].subcategory_sentiment_label,
                                  PyToFloat(srows[i].subcategory_sentiment_score))]
        is_irrelevant == IsIrrelevant(first_row.response_relevancy.v)
        flagged_for_review ==
            \E i \in DOMAIN category_sentiments :
                \/ Extreme(category_sentiments[i].category_sentiment_score)
                \/ Extreme(category_sentiments[i].subcategory_sentiment_score)
    IN ReviewSummary(first_row.response_id.v,
                     first_row.question_label,
                     first_row.question_response,
                     first_row.question_response,
                     PyBool(TRUE),
                     PyBool(Truthy(first_row.profane)),
                     PyOr(first_row.rewritten_comment, PyStr(<<>>)),
                     SentimentAnalysis(PyBool(is_irrelevant), None,
                                       PyList(category_sentiments)),
                     IF flagged_for_review THEN "recommended"
                     ELSE "random_sample",
                     first_row.store_key,
                     first_row.overall_sentiment_label,
                     first_row.overall_sentiment_score,
                     PyList(category_sentiments),
                     first_row.visit_datetime)

\* The dict the evaluation SELECT of get_review_detail / query_completed_reviews
\* yields for one evaluation-table row (column aliases applied)
EvalSelectRow(row) ==
    [response_id |-> row.survey_response_id,
     question_label |-> row.question_label,
     question_response |-> row.question_response,
     response_relevancy |-> row.response_relevancy,
     overall_sentiment_label |-> row.overall_sentiment_label,
     overall_sentiment_score |-> row.overall_sentiment_score,
     category_subcategory_list |-> row.category_subcategory_list,
     profane |-> row.human_eval_profane,
     rewritten_comment |-> row.human_eval_rewritten_comment,
     irrelevant |-> row.human_eval_irrelevant,
     human_eval_overall_sentiment_label |->
         row.human_eval_overall_sentiment_label,
     human_eval_overall_sentiment_score |->
         row.human_eval_overall_sentiment_score,
     human_eval_category_sentiments |-> row.human_eval_category_sentiments,
     store_key |-> row.store_key, visit_datetime |-> row.visit_datetime,
     evaluation_model |-> row.evaluation_model,
     created_at |-> row.created_at]

\* What building CategorySentiment from one parsed JSON entry raises:
\* float() of the two scores first (None: TypeError, a string: ValueError),
\* then pydantic's validation of the four str fields (a ValueError)
EntryError(cs_data) ==
    LET cscore == Get(cs_data, "category_sentiment_score", PyFloat(0))
        sscore == Get(cs_data, "subcategory_sentiment_score", PyFloat(0))
        FloatError(x) == CASE x.t \in {"int", "float", "bool"} -> "ok"
                           [] x.t = "str" -> "ValueError"
                           [] OTHER -> "TypeError"
        strs == {Get(cs_data, "category", PyStr(<<>>)),
                 Get(cs_data, "category_sentiment_label", PyStr(<<"Neutral">>)),
                 Get(cs_data, "subcategory", PyStr(<<>>)),
                 Get(cs_data, "subcategory_sentiment_label",
                     PyStr(<<"Neutral">>))}
    IN CASE FloatError(cscore) # "ok" -> FloatError(cscore)
         [] FloatError(sscore) # "ok" -> FloatError(sscore)
         [] \E s \in strs : s.t # "str" -> "ValueError"
         [] OTHER -> "ok"

\* the first exception the loop over the parsed entries raises, or "ok"
ParseError(data) ==
    LET bad == {i \in DOMAIN data : EntryError(data[i]) # "ok"}
    IN IF bad = {} THEN "ok"
       ELSE EntryError(data[CHOOSE i \in bad : \A j \in bad : i <= j])

\* the category_sentiments list convert_completed_review_to_summary builds from
\* the human_eval_category_sentiments JSON column
ParseCategorySentiments(category_sentiments_json) ==
    IF ~Truthy(category_sentiments_json) THEN <<>>
    ELSE IF category_sentiments_json.t # "json" THEN <<>>
    ELSE LET data == category_sentiments_json.v
         IN IF ParseError(data) # "ok" THEN <<>>
            ELSE [i \in DOMAIN data |->
                    CategorySentiment(
                        Get(data[i], "category", PyStr(<<>>)),
                        Get(data[i], "category_sentiment_label",
                            PyStr(<<"Neutral">>)),
                        PyToFloat(Get(data[i], "category_sentiment_score",
                                      PyFloat(0))),
                        Get(data[i], "subcategory", PyStr(<<>>)),
                        Get(data[i], "subcategory_sentiment_label",
                            PyStr(<<"Neutral">>)),
                        PyToFloat(Get(data[i], "subcategory_sentiment_score",
                                      PyFloat(0))))]

\* the conditions under which convert_completed_review_to_summary raises:
\* a TypeError escaping the JSON handler, or a required str field that is NULL
CompletedConversionRaises(db_row) ==
    \/ /\ db_row.human_eval_category_sentiments.t = "json"
       /\ ParseError(db_row.human_eval_category_sentiments.v) = "TypeError"
    \/ db_row.question_label.t # "str"
    \/ db_row.question_response.t # "str"

convert_completed_review_to_summary(db_row) ==
    IF CompletedConversionRaises(db_row)
    THEN HttpError(500, "Data conversion error")
    ELSE
    LET category_sentiments ==
            ParseCategorySentiments(db_row.human_eval_category_sentiments)
    IN ReviewSummary(db_row.response_id.v,
                     db_row.question_label,
                     db_row.question_response,
                     db_row.question_response,
                     PyBool(TRUE),
                     PyBool(Truthy(db_row.profane)),
                     db_row.rewritten_comment,
                     SentimentAnalysis(PyBool(Truthy(db_row.irrelevant)), None,
                                       PyList(category_sentiments)),
                     "completed",
                     None,
                     db_row.human_eval_overall_sentiment_label,
                     db_row.human_eval_overall_sentiment_score,
                     PyList(category_sentiments),
                     None)

(***************************************************************************)
(* SQL text built by the upsert (databricks_client.py)                     *)
(***************************************************************************)
SqlNull == [lit |-> "NULL"]
SqlBool(b) == [lit |-> "BOOL", v |-> b]
SqlNumber(n) == [lit |-> "NUM", v |-> n]
\* a quoted literal: the text between the enclosing quotes
SqlString(text) == [lit |-> "STR", v |-> text]

RECURSIVE EscapeChunks(_)
\* value.replace("'", "''")
EscapeChunks(s) ==
    IF s = <<>> THEN <<>>
    ELSE IF Head(s) = "'" THEN <<"'", "'">> \o EscapeChunks(Tail(s))
    ELSE <<Head(s)>> \o EscapeChunks(Tail(s))

\* replace() on a JSON text reaches the quotes inside its embedded strings
EscapeText(value) ==
    IF value.t = "json"
    THEN PyJson([i \in DOMAIN value.v |->
                   [k \in DOMAIN value.v[i] |->
                      IF value.v[i][k].t = "str"
                      THEN PyStr(EscapeChunks(value.v[i][k].v))
                      ELSE value.v[i][k]]])
    ELSE PyStr(EscapeChunks(value.v))

_format_sql_value(value) ==
    CASE value.t = "none" -> SqlNull
      [] value.t = "bool" -> SqlBool(value.v)
      [] value.t \in {"str", "json"} -> SqlString(EscapeText(value))
      [] value.t \in {"int", "float"} -> SqlNumber(value)
      [] OTHER -> SqlNull

RECURSIVE WellQuoted(_)
\* a quoted literal is closed by the first quote that is not doubled: the
\* text parses as one literal iff its quotes come in pairs
WellQuoted(s) ==
    IF s = <<>> THEN TRUE
    ELSE IF Head(s) # "'" THEN WellQuoted(Tail(s))
    ELSE Len(s) >= 2 /\ s[2] = "'" /\ WellQuoted(Tail(Tail(s)))

RECURSIVE UnescapeChunks(_)
\* the string a well-quoted literal denotes
UnescapeChunks(s) ==
    IF s = <<>> THEN <<>>
    ELSE IF Head(s) = "'" THEN <<"'">> \o UnescapeChunks(Tail(Tail(s)))
    ELSE <<Head(s)>> \o UnescapeChunks(Tail(s))

LiteralWellFormed(l) ==
    IF l.lit # "STR" THEN TRUE
    ELSE IF l.v.t = "json"
    THEN \A i \in DOMAIN l.v.v : \A k \in DOMAIN l.v.v[i] :
            l.v.v[i][k].t = "str" => WellQuoted(l.v.v[i][k].v)
    ELSE WellQuoted(l.v.v)

\* the column value the warehouse reads from a literal
SqlEval(l) ==
    CASE l.lit = "NULL" -> None
      [] l.lit = "BOOL" -> PyBool(l.v)
      [] l.lit = "NUM" -> l.v
      [] l.lit = "STR" ->
           IF l.v.t = "json"
           THEN PyJson([i \in DOMAIN l.v.v |->
                          [k \in DOMAIN l.v.v[i] |->
                             IF l.v.v[i][k].t = "str"
                             THEN PyStr(UnescapeChunks(l.v.v[i][k].v))
                             ELSE l.v.v[i][k]]])
           ELSE PyStr(UnescapeChunks(l.v.v))

\* hashlib.sha256(text).hexdigest(): an injective, quote-free image of text
Sha256Hex(text) ==
    <<"sha256:">> \o [i \in DOMAIN text |->
                         IF text[i] = "'" THEN "%27" ELSE text[i]]

\* int(x) of a numeric value (floats are in hundredths; truncation to zero)
PyToInt(x) ==
    IF x.t = "float"
    THEN PyInt(IF x.v >= 0 THEN x.v \div 100 ELSE 0 - ((0 - x.v) \div 100))
    ELSE PyInt(x.v)

RECURSIVE Join(_, _)
\* sep.join(parts)
Join(parts, sep) ==
    IF parts = <<>> THEN <<>>
    ELSE IF Len(parts) = 1 THEN parts[1]
    ELSE parts[1] \o sep \o Join(Tail(parts), sep)

(***************************************************************************)
(* write_human_evaluation_optimized                                        *)
(***************************************************************************)
\* evaluation_model of the wrapper validate_review calls (write_human_evaluation)
LEGACY_MODEL == <<"human_validation_v1_legacy">>

evaluation_hash_key(survey_response_id, evaluation_model) ==
    Sha256Hex(survey_response_id \o <<"_">> \o evaluation_model)

\* a key that also depends on what the human flagged
RowHashKey_WithContent(survey_response_id, human_eval_data, machine_eval_data, evaluation_model) ==
    evaluation_hash_key(
        survey_response_id
           \o <<ToString(Truthy(Get(human_eval_data, "irrelevant",
                                    PyBool(FALSE))))>>,
        evaluation_model)

\* the key write_human_evaluation_optimized computes, with the arguments it
\* has at hand
RowHashKey(survey_response_id, human_eval_data, machine_eval_data, evaluation_model) ==
    evaluation_hash_key(survey_response_id, evaluation_model)

\* a derivation that words irrelevance as the read side does not look for it
DerivedRelevancy_NotRelevant(human_eval_data) ==
    IF Truthy(Get(human_eval_data, "irrelevant", PyBool(FALSE)))
    THEN <<"n","o","t"," ","r","e","l","e","v","a","n","t">>
    ELSE IF Truthy(Get(human_eval_data, "profane", PyBool(FALSE)))
    THEN STR_profane_but_useful
    ELSE STR_useful

\* the write-side relevancy string derived from the human flags
DerivedRelevancy(human_eval_data) ==
    IF Truthy(Get(human_eval_data, "irrelevant", PyBool(FALSE)))
    THEN STR_nonsense_or_irrelevant
    ELSE IF Truthy(Get(human_eval_data, "profane", PyBool(FALSE)))
    THEN STR_profane_but_useful
    ELSE STR_useful

\* "category:subcategory" pairs joined by ", "
CategorySubcategoryList(category_sentiments) ==
    LET HasBoth(cs) == Truthy(Get(cs, "category", PyStr(<<>>)))
                       /\ Truthy(Get(cs, "subcategory", PyStr(<<>>)))
        kept == SelectSeq(category_sentiments, HasBoth)
        pairs == [i \in DOMAIN kept |->
                    kept[i].category.v \o <<":">> \o kept[i].subcategory.v]
    IN Join(pairs, <<", ">>)

\* json.dumps of the entries as dicts; "[]" for an absent or empty list
serialize_category_sentiments(sentiments) ==
    IF ~Truthy(sentiments) THEN PyJson(<<>>) ELSE PyJson(sentiments.v)

\* int(d.get(k, 0)) if d.get(k) is not None else None
IntOrNone(d, k) ==
    IF Get(d, k, None).t # "none" THEN PyToInt(Get(d, k, PyInt(0))) ELSE None

\* The one-row USING (SELECT ...) source of the MERGE: a literal per column.
\* The hash key, the response id and the model are interpolated between
\* quotes as they are; every other column goes through _format_sql_value.
UpsertSource(survey_response_id, human_eval_data, machine_eval_data, evaluation_model) ==
    LET category_sentiments ==
            Get(human_eval_data, "category_sentiments", PyList(<<>>))
        category_subcategory_list ==
            IF Truthy(category_sentiments)
            THEN CategorySubcategoryList(category_sentiments.v) ELSE <<>>
        human_json == serialize_category_sentiments(category_sentiments)
        machine_json ==
            serialize_category_sentiments(
                Get(machine_eval_data, "category_sentiments", PyList(<<>>)))
    IN [evaluation_hash_key |->
            SqlString(PyStr(RowHashKey(survey_response_id, human_eval_data,
                                       machine_eval_data, evaluation_model))),
        survey_response_id |-> SqlString(PyStr(survey_response_id)),
        question_label |->
            _format_sql_value(Get(human_eval_data, "question_label",
                                  PyStr(<<"COMMENT">>))),
        question_response |->
            _format_sql_value(Get(human_eval_data, "question_response", None)),
        response_relevancy |->
            _format_sql_value(PyStr(DerivedRelevancy(human_eval_data))),
        overall_sentiment_label |->
            _format_sql_value(Get(human_eval_data, "overall_sentiment_label",
                                  None)),
        overall_sentiment_score |->
            _format_sql_value(IntOrNone(human_eval_data,
                                        "overall_sentiment_score")),
        category_subcategory_list |->
            _format_sql_value(PyStr(category_subcategory_list)),
        human_eval_profane |->
            _format_sql_value(Get(human_eval_data, "profane", PyBool(FALSE))),
        human_eval_rewritten_comment |->
            _format_sql_value(Get(human_eval_data, "rewritten_comment", None)),
        human_eval_irrelevant |->
            _format_sql_value(Get(human_eval_data, "irrelevant",
                                  PyBool(FALSE))),
        human_eval_overall_sentiment_label |->
            _format_sql_value(Get(human_eval_data, "overall_sentiment_label",
                                  None)),
        human_eval_overall_sentiment_score |->
            _format_sql_value(IntOrNone(human_eval_data,
                                        "overall_sentiment_score")),
        human_eval_category_sentiments |-> _format_sql_value(human_json),
        machine_eval_profane |->
            _format_sql_value(Get(machine_eval_data, "profane",
                                  PyBool(FALSE))),
        machine_eval_rewritten_comment |->
            _format_sql_value(Get(machine_eval_data, "rewritten_comment",
                                  None)),
        machine_eval_irrelevant |->
            _format_sql_value(Get(machine_eval_data, "irrelevant",
                                  PyBool(FALSE))),
        machine_eval_overall_sentiment_label |->
            _format_sql_value(Get(machine_eval_data,
                                  "overall_sentiment_label", None)),
        machine_eval_overall_sentiment_score |->
            _format_sql_value(IntOrNone(machine_eval_data,
                                        "overall_sentiment_score")),
        machine_eval_category_sentiments |-> _format_sql_value(machine_json),
        store_key |->
            _format_sql_value(Get(human_eval_data, "store_id", None)),
        visit_datetime |->
            _format_sql_value(Get(human_eval_data, "visit_datetime", None)),
        evaluation_model |-> SqlString(PyStr(evaluation_model))]

\* the statement parses: every quoted literal is closed where it should be
UpsertWellFormed(source) ==
    \A c \in DOMAIN source : LiteralWellFormed(source[c])

\* an UPDATE SET list that names the machine-eval columns too
MatchedColumns_WithMachine ==
    {"response_relevancy", "overall_sentiment_label",
     "overall_sentiment_score", "category_subcategory_list",
     "human_eval_profane", "human_eval_rewritten_comment",
     "human_eval_irrelevant", "human_eval_overall_sentiment_label",
     "human_eval_overall_sentiment_score", "human_eval_category_sentiments",
     "machine_eval_profane", "machine_eval_rewritten_comment",
     "machine_eval_irrelevant", "machine_eval_overall_sentiment_label",
     "machine_eval_overall_sentiment_score",
     "machine_eval_category_sentiments",
     "evaluation_model"}

\* the columns the WHEN MATCHED branch assigns from the source row
MatchedColumns ==
    {"response_relevancy", "overall_sentiment_label",
     "overall_sentiment_score", "category_subcategory_list",
     "human_eval_profane", "human_eval_rewritten_comment",
     "human_eval_irrelevant", "human_eval_overall_sentiment_label",
     "human_eval_overall_sentiment_score", "human_eval_category_sentiments",
     "evaluation_model"}

\* WHEN NOT MATCHED THEN INSERT: the source columns and both timestamps
InsertedRow(source, now) ==
    [c \in DOMAIN source \cup {"created_at", "updated_at"} |->
        IF c \in {"created_at", "updated_at"} THEN PyDateTime(now)
        ELSE SqlEval(source[c])]

\* a MATCHED branch that leaves the overall sentiment columns out
UpdatedRow_StaleSentiment(target, source, now) ==
    [c \in DOMAIN target |->
        IF c \in MatchedColumns
              \ {"human_eval_overall_sentiment_label",
                 "human_eval_overall_sentiment_score"}
        THEN SqlEval(source[c])
        ELSE IF c = "updated_at" THEN PyDateTime(now)
        ELSE target[c]]

\* a MATCHED branch that stamps both timestamps
UpdatedRow_StampsCreated(target, source, now) ==
    [c \in DOMAIN target |->
        IF c \in MatchedColumns THEN SqlEval(source[c])
        ELSE IF c \in {"created_at", "updated_at"} THEN PyDateTime(now)
        ELSE target[c]]

\* WHEN MATCHED THEN UPDATE SET ...
UpdatedRow(target, source, now) ==
    [c \in DOMAIN target |->
        IF c \in MatchedColumns THEN SqlEval(source[c])
        ELSE IF c = "updated_at" THEN PyDateTime(now)
        ELSE target[c]]

\* ON target.survey_response_id = source.survey_response_id
MergeOn(target, source) ==
    target.survey_response_id = SqlEval(source.survey_response_id)

\* a MERGE whose ON condition never matches: every execution inserts
Merge_AlwaysInsert(table, source, now) ==
    Append(table, InsertedRow(source, now))

\* MERGE INTO the evaluation table, executed atomically by the warehouse
Merge(table, source, now) ==
    IF \E i \in DOMAIN table : MergeOn(table[i], source)
    THEN [i \in DOMAIN table |->
            IF MergeOn(table[i], source)
            THEN UpdatedRow(table[i], source, now) ELSE table[i]]
    ELSE Append(table, InsertedRow(source, now))

(***************************************************************************)
(* validate_review: what is handed to the upsert                           *)
(***************************************************************************)
\* ValidationRequest; updated_labels is a dict (None and {} are both the empty
\* one: the handler only tests its truth value)
ValidationRequest(decision, updated_labels, corrections_made) ==
    [decision |-> decision, updated_labels |-> updated_labels,
     corrections_made |-> corrections_made]

\* machine_eval_data: the original predictions, whatever the decision
MachineEvalData(original_review) ==
    [profane |-> original_review.profane,
     rewritten_comment |-> original_review.rewritten_comment,
     irrelevant |-> PyBool(FALSE),
     overall_sentiment_label |-> original_review.overall_sentiment_label,
     overall_sentiment_score |-> original_review.overall_sentiment_score,
     category_sentiments |->
         PyOr(original_review.category_sentiments, PyList(<<>>))]

\* human_eval_data as first built, before the decision fills it in
HumanEvalBase(original_review) ==
    [question_label |-> original_review.question_label,
     question_response |-> original_review.question_response,
     profane |-> None, rewritten_comment |-> None, irrelevant |-> None,
     overall_sentiment_label |-> None, overall_sentiment_score |-> None,
     category_sentiments |-> PyList(<<>>), aspects |-> <<>>,
     store_id |-> original_review.store_id,
     visit_datetime |-> original_review.created_at]

\* decision accept, and override without corrections
HumanEvalAccept(original_review) ==
    [HumanEvalBase(original_review) EXCEPT
        !.irrelevant = Get(original_review.sentiment_analysis, "irrelevant",
                           PyBool(FALSE)),
        !.profane = original_review.profane,
        !.rewritten_comment = original_review.rewritten_comment,
        !.overall_sentiment_label = original_review.overall_sentiment_label,
        !.overall_sentiment_score = original_review.overall_sentiment_score,
        !.category_sentiments =
            PyOr(original_review.category_sentiments, PyList(<<>>))]

\* decision override with corrections
HumanEvalOverride(original_review, updated_labels) ==
    LET sentiment_data == Get(updated_labels, "sentiment_analysis", <<>>)
        category_sentiments ==
            Get(updated_labels, "category_sentiments",
                PyOr(original_review.category_sentiments, PyList(<<>>)))
    IN [HumanEvalBase(original_review) EXCEPT
        !.irrelevant = Get(sentiment_data, "irrelevant", PyBool(FALSE)),
        !.profane = Get(updated_labels, "profane", original_review.profane),
        !.rewritten_comment =
            Get(updated_labels, "rewritten_comment",
                original_review.rewritten_comment),
        !.overall_sentiment_label =
            Get(updated_labels, "overall_sentiment_label",
                original_review.overall_sentiment_label),
        !.overall_sentiment_score =
            Get(updated_labels, "overall_sentiment_score",
                original_review.overall_sentiment_score),
        !.category_sentiments =
            IF Truthy(category_sentiments) THEN category_sentiments
            ELSE PyList(<<>>)]

HumanEvalData(original_review, validation) ==
    IF validation.decision = "override"
       /\ validation.updated_labels # <<>>
    THEN HumanEvalOverride(original_review, validation.updated_labels)
    ELSE HumanEvalAccept(original_review)

(***************************************************************************)
(* State                                                                   *)
(***************************************************************************)
VARIABLES
    evalTable,       \* rows of EVALUATION_TABLE, in insertion order
    evalTableExists, \* EVALUATION_TABLE has been created
    recTableExists,  \* the recommendations table has been created
    clock,           \* the warehouse's CURRENT_TIMESTAMP()
    mockValidated,   \* ids of MOCK_REVIEWS entries marked "validated"
    req,             \* the request each worker is serving, and where it is
    started,         \* number of requests started so far
    merged,          \* history: per id, what each executed MERGE was handed
    pure             \* a call of one function on its own: input and output

vars == <<evalTable, evalTableExists, recTableExists, clock, mockValidated,
          req, started, merged, pure>>

\* two requests can be in flight at once
Workers == {"w1", "w2"}

\* ids the requests of the model ask for: a source id, a mock id that is not
\* in the source table, and an id that is nowhere
RequestIds == {<<"S1">>, <<"R001">>, <<"Q404">>}

\* ids a detail is asked for: those, and a source id whose row is malformed
DetailIds == RequestIds \cup {<<"S3">>}

\* corrections a caller sends with decision override
Labels_Profane == [profane |-> PyBool(TRUE)]
Labels_Irrelevant ==
    [sentiment_analysis |-> [irrelevant |-> PyBool(TRUE)],
     overall_sentiment_label |-> PyStr(<<"Neutral">>),
     overall_sentiment_score |-> PyInt(3)]
Labels_Categories ==
    [rewritten_comment |-> PyStr(<<"it", "'", "s fine">>),
     category_sentiments |->
        PyList(<< [category |-> PyStr(<<"Food">>),
                   subcategory |-> PyStr(<<"Flavor">>)] >>)]

\* every correctable field but profane
Labels_Others == Labels_Irrelevant @@ Labels_Categories

Validations ==
    {ValidationRequest("accept", <<>>, PyInt(0)),
     ValidationRequest("skip", <<>>, PyInt(0)),
     ValidationRequest("override", <<>>, PyInt(0)),
     ValidationRequest("override", Labels_Profane, PyInt(1)),
     ValidationRequest("override", Labels_Others, PyInt(5))}

NoRequest ==
    [kind |-> "none", pc |-> "idle", id |-> <<>>, use_databricks |-> TRUE,
     validation |-> None,
     original |-> None, human |-> None, machine |-> None, result |-> None,
     found |-> FALSE, rowsAtStart |-> <<>>]

InFlight(w) == req[w].pc \notin {"idle", "done"}

\* rows of the evaluation table for one response id
EvalRowsOf(table, id) ==
    LET Match(r) == r.survey_response_id = PyStr(id)
    IN SelectSeq(table, Match)

\* no function is called on its own while the service runs
NoCall == [op |-> "none"]

\* the service as it starts: no table created, nothing validated
ServiceInit ==
    /\ evalTable = <<>>
    /\ evalTableExists = FALSE
    /\ recTableExists = FALSE
    /\ clock = 0
    /\ mockValidated = {}
    /\ req = [w \in Workers |-> NoRequest]
    /\ started = 0
    /\ merged = [id \in RequestIds |-> <<>>]

Init == ServiceInit /\ pure = NoCall

(***************************************************************************)
(* Requests.  A request is served by one worker; each warehouse call is    *)
(* one atomic step, and the code between two calls runs with the later     *)
(* one.  Any warehouse call can fail (ok = FALSE).                          *)
(***************************************************************************)
\* a response that names the first mock review whatever was validated
Success_NamesFirstMock(r, message) ==
    [success |-> TRUE, review_id |-> MOCK_REVIEWS[1].response_id,
     decision |-> r.validation.decision, message |-> message]

Success(r, message) ==
    IF r.validation.decision = "skip"
    THEN [success |-> TRUE, review_id |-> r.id,
          decision |-> r.validation.decision, message |-> message]
    ELSE [success |-> TRUE, review_id |-> r.id,
          decision |-> r.validation.decision,
          corrections_made |-> PyOr(r.validation.corrections_made, PyInt(0)),
          message |-> message]

\* the request returns: its response is kept until the worker is reused
\* (with the decision it answers, for a validation)
Finish(r, result) ==
    [r EXCEPT !.pc = "done", !.result = result, !.original = None,
              !.human = None, !.machine = None,
              !.validation = IF r.kind = "validate"
                             THEN [decision |-> r.validation.decision]
                             ELSE None]

\* a handler without the early return on decision skip
Obtained_SkipWrites(r, review) ==
    IF r.kind = "detail" THEN Finish([r EXCEPT !.found = TRUE], review)
    ELSE [r EXCEPT !.pc = "ensure_eval", !.found = TRUE,
                   !.original = review,
                   !.human = HumanEvalData(review, r.validation),
                   !.machine = MachineEvalData(review)]

\* get_review_detail has a review in hand: it is the response of the detail
\* endpoint; validate_review prepares both sides of the upsert from it, and
\* returns at once on decision skip
Obtained(r, review) ==
    IF r.kind = "detail" THEN Finish([r EXCEPT !.found = TRUE], review)
    ELSE IF r.validation.decision = "skip"
    THEN Finish([r EXCEPT !.found = TRUE],
                Success(r, "skipped (no evaluation written)"))
    ELSE [r EXCEPT !.pc = "ensure_eval", !.found = TRUE,
                   !.original = review,
                   !.human = HumanEvalData(review, r.validation),
                   !.machine = MachineEvalData(review)]

\* a fallback that lets a skip through when the mock data has no such review
MockFallback_SkipUnfound(r) ==
    LET review == get_mock_review_by_id(r.id, mockValidated)
    IN IF review # None THEN Obtained(r, review)
       ELSE IF r.kind = "validate" /\ r.validation.decision = "skip"
       THEN Finish(r, Success(r, "skipped (no evaluation written)"))
       ELSE Finish(r, HttpError(404, "Review not found"))

\* the mock fallback of get_review_detail
MockFallback(r) ==
    LET review == get_mock_review_by_id(r.id, mockValidated)
    IN IF review = None THEN Finish(r, HttpError(404, "Review not found"))
       ELSE Obtained(r, review)

CanBegin(w) ==
    /\ ~InFlight(w)
    /\ started < MaxRequests
    \* workers are interchangeable: w2 takes a request only while w1 is busy
    /\ w = "w2" => InFlight("w1")

\* POST /reviews/{review_id}/validate
BeginValidate(w, review_id, validation, use_databricks) ==
    /\ CanBegin(w)
    /\ started' = started + 1
    /\ LET r == [NoRequest EXCEPT !.kind = "validate", !.id = review_id,
                                  !.validation = validation,
                                  !.use_databricks = use_databricks]
       IN IF use_databricks
          THEN /\ req' = [req EXCEPT ![w] = [r EXCEPT !.pc = "eval_query"]]
               /\ UNCHANGED mockValidated
          ELSE LET review == get_mock_review_by_id(review_id, mockValidated)
               IN IF review = None
                  THEN /\ req' = [req EXCEPT ![w] =
                                Finish(r, HttpError(404, "Review not found"))]
                       /\ UNCHANGED mockValidated
                  ELSE /\ mockValidated' = mockValidated \cup {review_id}
                       /\ req' = [req EXCEPT ![w] =
                                Finish([r EXCEPT !.found = TRUE],
                                          [success |-> TRUE,
                                           review_id |-> review_id,
                                           decision |-> validation.decision,
                                           message |-> "mock"])]
    /\ UNCHANGED <<pure, evalTable, evalTableExists, recTableExists, clock, merged>>

\* GET /reviews/{review_id}
BeginDetail(w, review_id, use_databricks) ==
    /\ CanBegin(w)
    /\ started' = started + 1
    /\ LET r == [NoRequest EXCEPT !.kind = "detail", !.id = review_id,
                    !.use_databricks = use_databricks,
                    !.rowsAtStart = EvalRowsOf(evalTable, review_id)]
       IN IF use_databricks
          THEN req' = [req EXCEPT ![w] = [r EXCEPT !.pc = "eval_query"]]
          ELSE LET review == get_mock_review_by_id(review_id, mockValidated)
               IN req' = [req EXCEPT ![w] =
                            IF review = None
                            THEN Finish(r, HttpError(404, "Review not found"))
                            ELSE Finish(r, review)]
    /\ UNCHANGED <<pure, evalTable, evalTableExists, recTableExists, clock,
                   mockValidated, merged>>

\* get_review_detail, first query: the evaluation table.  A failure of the
\* query or of the conversion is swallowed and the source table is asked.
EvalQuery(w) ==
    /\ req[w].pc = "eval_query"
    /\ \E ok \in BOOLEAN :
         LET eval_results == IF ok /\ evalTableExists
                             THEN EvalRowsOf(evalTable, req[w].id) ELSE <<>>
         IN IF eval_results = <<>>
            THEN req' = [req EXCEPT ![w].pc = "source_query"]
            ELSE LET summary == convert_completed_review_to_summary(
                                    EvalSelectRow(eval_results[1]))
                 IN req' = [req EXCEPT ![w] =
                       IF IsError(summary)
                       THEN [req[w] EXCEPT !.pc = "source_query"]
                       ELSE Obtained(req[w],
                               ReviewDetail(summary, PyStr(<<"completed">>)))]
    /\ UNCHANGED <<pure, evalTable, evalTableExists, recTableExists, clock,
                   mockValidated, started, merged>>

\* get_review_detail, second query: the source rows of the id.  No rows is a
\* 404, a conversion error a 500, a failed query the mock fallback.
SourceQuery(w) ==
    /\ req[w].pc = "source_query"
    /\ \E ok \in BOOLEAN :
         IF ok
         THEN LET results == RowsOf(req[w].id)
                  summary == convert_flattened_rows_to_review(results)
              IN req' = [req EXCEPT ![w] =
                    IF results = <<>>
                    THEN Finish(req[w], HttpError(404, "Review not found"))
                    ELSE IF IsError(summary) THEN Finish(req[w], summary)
                    ELSE Obtained(req[w],
                            ReviewDetail(summary, PyStr(<<"pending">>)))]
         ELSE req' = [req EXCEPT ![w] = MockFallback(req[w])]
    /\ UNCHANGED <<pure, evalTable, evalTableExists, recTableExists, clock,
                   mockValidated, started, merged>>

\* create_evaluation_table_if_not_exists: DESCRIBE TABLE, whose failure is
\* read as "the table does not exist", then CREATE TABLE, whose failure is
\* raised to validate_review.  CREATE fails on a table that exists.
EnsureEvalTable(w) ==
    /\ req[w].pc = "ensure_eval"
    /\ \E describe_ok \in BOOLEAN, create_ok \in BOOLEAN :
         IF describe_ok /\ evalTableExists
         THEN /\ req' = [req EXCEPT ![w].pc = "ensure_rec"]
              /\ UNCHANGED evalTableExists
         ELSE IF create_ok /\ ~evalTableExists
         THEN /\ evalTableExists' = TRUE
              /\ req' = [req EXCEPT ![w].pc = "ensure_rec"]
         ELSE /\ UNCHANGED evalTableExists
              /\ req' = [req EXCEPT ![w] =
                    Finish(req[w], HttpError(500, "Validation failed"))]
    /\ UNCHANGED <<pure, evalTable, recTableExists, clock, mockValidated, started,
                   merged>>

\* create_recommendations_table_if_not_exists: the same for the
\* recommendations table
EnsureRecTable(w) ==
    /\ req[w].pc = "ensure_rec"
    /\ \E describe_ok \in BOOLEAN, create_ok \in BOOLEAN :
         IF describe_ok /\ recTableExists
         THEN /\ req' = [req EXCEPT ![w].pc = "merge"]
              /\ UNCHANGED recTableExists
         ELSE IF create_ok /\ ~recTableExists
         THEN /\ recTableExists' = TRUE
              /\ req' = [req EXCEPT ![w].pc = "merge"]
         ELSE /\ UNCHANGED recTableExists
              /\ req' = [req EXCEPT ![w] =
                    Finish(req[w], HttpError(500, "Validation failed"))]
    /\ UNCHANGED <<pure, evalTable, evalTableExists, clock, mockValidated, started,
                   merged>>

\* the MERGE.  write_human_evaluation_optimized returns False when the query
\* raises, and validate_review turns False into a 500.
MergeExecutes(ok, source) == ok /\ evalTableExists /\ UpsertWellFormed(source)

\* a handler that does not look at what write_human_evaluation returned
WriteResult_IgnoresFailure(r, success) ==
    Success(r, "saved to evaluation table")

WriteResult(r, success) ==
    IF success THEN Success(r, "saved to evaluation table")
    ELSE HttpError(500, "Failed to write evaluation to database")

MergeStep(w) ==
    /\ req[w].pc = "merge"
    /\ \E ok \in BOOLEAN :
         LET source == UpsertSource(req[w].id, req[w].human, req[w].machine,
                                    LEGACY_MODEL)
             success == MergeExecutes(ok, source)
         IN /\ IF success
               THEN /\ evalTable' = Merge(evalTable, source, clock + 1)
                    /\ clock' = clock + 1
                    /\ merged' = [merged EXCEPT ![req[w].id] =
                                      Append(@, [human |-> req[w].human,
                                                 machine |-> req[w].machine])]
               ELSE UNCHANGED <<evalTable, clock, merged>>
            /\ req' = [req EXCEPT ![w] =
                          Finish(req[w], WriteResult(req[w], success))]
    /\ UNCHANGED <<pure, evalTableExists, recTableExists, mockValidated, started>>

(***************************************************************************)
(* Listings                                                                *)
(***************************************************************************)
\* x NOT IN (SELECT ...): no row passes once the subquery yields a NULL
NotIn(x, values) == None \notin values /\ x \notin values

\* the ids the unique_surveys CTE of query_reviews_table can pick:
\* DISTINCT ids, less the evaluated ones, in random order, LIMIT / OFFSET
SampleCandidates(table, exclude_validated) ==
    {id \in SourceIds :
        exclude_validated =>
            NotIn(PyStr(id),
                  {table[i].survey_response_id : i \in DOMAIN table})}

SampleSize(candidates, limit, offset) ==
    LET left == IF Cardinality(candidates) > offset
                THEN Cardinality(candidates) - offset ELSE 0
    IN IF limit < left THEN limit ELSE left

\* the rows query_reviews_table returns for a sample, ordered by response id,
\* category and subcategory (the order BackendRows is listed in)
SampleRows(sample) ==
    LET Picked(r) == r.response_id.v \in sample
    IN SelectSeq(BackendRows, Picked)

RECURSIVE FirstIds(_, _)
\* keys of reviews_by_id in insertion order: ids by first appearance
FirstIds(rows, seen) ==
    IF rows = <<>> THEN <<>>
    ELSE IF rows[1].response_id.v \in seen THEN FirstIds(Tail(rows), seen)
    ELSE <<rows[1].response_id.v>>
         \o FirstIds(Tail(rows), seen \cup {rows[1].response_id.v})

\* a listing that keeps what a failed conversion raised
GroupAndConvert_KeepsFailed(db_rows) ==
    LET ids == FirstIds(db_rows, {})
        Group(id) == LET Same(r) == r.response_id.v = id
                     IN SelectSeq(db_rows, Same)
    IN [i \in DOMAIN ids |-> convert_flattened_rows_to_review(Group(ids[i]))]

\* group by response id, convert each group, skip the groups that fail
GroupAndConvert(db_rows) ==
    LET ids == FirstIds(db_rows, {})
        Group(id) == LET Same(r) == r.response_id.v = id
                     IN SelectSeq(db_rows, Same)
        converted == [i \in DOMAIN ids |->
                         convert_flattened_rows_to_review(Group(ids[i]))]
        Good(r) == ~IsError(r)
    IN SelectSeq(converted, Good)

RECURSIVE OrderByCreatedDesc(_)
\* ORDER BY created_at DESC
OrderByCreatedDesc(rows) ==
    IF rows = <<>> THEN <<>>
    ELSE LET i == CHOOSE j \in DOMAIN rows :
                     \A k \in DOMAIN rows :
                        rows[k].created_at.v <= rows[j].created_at.v
             rest == [k \in 1..(Len(rows) - 1) |->
                         IF k < i THEN rows[k] ELSE rows[k + 1]]
         IN <<rows[i]>> \o OrderByCreatedDesc(rest)

\* rows[offset : offset + limit]
Slice(rows, limit, offset) ==
    SubSeq(rows, offset + 1,
           IF offset + limit < Len(rows) THEN offset + limit ELSE Len(rows))

\* query_completed_reviews, then convert_completed_review_to_summary per row,
\* skipping the rows that fail
CompletedReviews(table, limit, offset) ==
    LET db_rows == Slice(OrderByCreatedDesc(table), limit, offset)
        converted == [i \in DOMAIN db_rows |->
                         convert_completed_review_to_summary(
                             EvalSelectRow(db_rows[i]))]
        Good(r) == ~IsError(r)
    IN SelectSeq(converted, Good)

\* if store_id: reviews = [r for r in reviews if r.store_id == store_id]
StoreFilter(reviews, store_id) ==
    IF ~Truthy(store_id) THEN reviews
    ELSE LET InStore(r) == r.store_id = store_id
         IN SelectSeq(reviews, InStore)

\* the listing returns at once; the request keeps the status it was asked
\* with and the list it answered
ListRequest(status, limit, offset, store_id, use_databricks, reviews) ==
    [NoRequest EXCEPT !.kind = "list", !.pc = "done",
        !.use_databricks = use_databricks,
        !.validation = [status |-> status],
        !.result = reviews]

\* GET /reviews: one warehouse query, or none
GetReviews(w, status, limit, offset, store_id, use_databricks) ==
    /\ CanBegin(w)
    /\ started' = started + 1
    /\ LET mock == StoreFilter(
                      get_mock_reviews(limit, offset, status, mockValidated),
                      store_id)
       IN IF ~use_databricks
          THEN req' = [req EXCEPT ![w] =
                         ListRequest(status, limit, offset, store_id, use_databricks, mock)]
          ELSE IF status = "recommended"
          THEN req' = [req EXCEPT ![w] =
                         ListRequest(status, limit, offset, store_id, use_databricks,
                                     <<>>)]
          ELSE \E ok \in BOOLEAN :
             IF status = "completed"
             THEN req' = [req EXCEPT ![w] =
                     ListRequest(status, limit, offset, store_id, use_databricks,
                        IF ok /\ evalTableExists
                        THEN StoreFilter(
                                CompletedReviews(evalTable, limit, offset),
                                store_id)
                        ELSE mock)]
             ELSE LET exclude_validated == (status = "random_sample")
                      candidates ==
                          SampleCandidates(evalTable, exclude_validated)
                  IN IF ok /\ (exclude_validated => evalTableExists)
                     THEN \E sample \in SUBSET candidates :
                            /\ Cardinality(sample) =
                                  SampleSize(candidates, limit, offset)
                            /\ req' = [req EXCEPT ![w] =
                                 ListRequest(status, limit, offset, store_id,
                                    use_databricks,
                                    StoreFilter(
                                       GroupAndConvert(SampleRows(sample)),
                                       store_id))]
                     ELSE req' = [req EXCEPT ![w] =
                            ListRequest(status, limit, offset, store_id,
                                        use_databricks, mock)]
    /\ UNCHANGED <<pure, evalTable, evalTableExists, recTableExists, clock,
                   mockValidated, merged>>

\* POST /refresh-random-sample: the pending sample again, reported by its size;
\* a failed query is a 500 here, not the mock data.  The sample itself is
\* kept with the request (the handler logs it).
RefreshRandomSample(w, limit, use_databricks) ==
    /\ CanBegin(w)
    /\ started' = started + 1
    /\ LET Done(reviews, result) ==
              [NoRequest EXCEPT !.kind = "refresh", !.pc = "done",
                  !.use_databricks = use_databricks,
                  !.original = reviews, !.result = result]
           Report(reviews) ==
              Done(reviews, [success |-> TRUE, sample_size |-> Len(reviews)])
           candidates == SampleCandidates(evalTable, TRUE)
       IN IF ~use_databricks
          THEN req' = [req EXCEPT ![w] =
                  Report(get_mock_reviews(limit, 0, "random_sample",
                                          mockValidated))]
          ELSE \E ok \in BOOLEAN :
             IF ok /\ evalTableExists
             THEN \E sample \in SUBSET candidates :
                    /\ Cardinality(sample) = SampleSize(candidates, limit, 0)
                    /\ req' = [req EXCEPT ![w] =
                          Report(GroupAndConvert(SampleRows(sample)))]
             ELSE req' = [req EXCEPT ![w] =
                     Done(<<>>, HttpError(500,
                                   "Failed to generate new random sample"))]
    /\ UNCHANGED <<pure, evalTable, evalTableExists, recTableExists, clock,
                   mockValidated, merged>>

(***************************************************************************)
(* Metrics (databricks_client.get_metrics_data, routes/v1/metrics.py)      *)
(***************************************************************************)
\* a response model with the field names of an earlier dashboard
MetricsOverview_EarlierNames(total_random_sample, completed_today, recommended_reviews, total_reviews, average_accuracy, corrections_per_review) ==
    [total_pending |-> total_random_sample,
     validated_today |-> completed_today,
     total_reviews |-> total_reviews,
     accuracy_vs_machine |-> average_accuracy]

MetricsOverview(total_random_sample, completed_today, recommended_reviews, total_reviews, average_accuracy, corrections_per_review) ==
    [total_random_sample |-> total_random_sample,
     completed_today |-> completed_today,
     recommended_reviews |-> recommended_reviews,
     total_reviews |-> total_reviews,
     average_accuracy |-> average_accuracy,
     corrections_per_review |-> corrections_per_review]

\* len of the mock reviews of one status
MockCount(status) ==
    Cardinality({i \in DOMAIN MOCK_REVIEWS : MOCK_REVIEWS[i].status = status})

get_mock_metrics ==
    MetricsOverview(PyInt(MockCount("random_sample")),
                    PyInt(MockCount("completed")),
                    PyInt(MockCount("recommended")),
                    PyInt(Len(MOCK_REVIEWS)),
                    PyFloat(87), PyFloat(230))

\* what get_metrics_data returns when the source count raises
DefaultMetrics ==
    MetricsOverview(PyInt(0), PyInt(0), PyInt(0), PyInt(0),
                    PyFloat(0), PyFloat(0))

\* n / d rounded to the nearest integer, a tie to the even one
RoundHalfEven(n, d) ==
    LET q == n \div d
        r == n % d
    IN IF 2 * r > d \/ (2 * r = d /\ q % 2 = 1) THEN q + 1 ELSE q

\* round(n / d, 2) and round(n / d, 1), in hundredths
Round2(n, d) == PyFloat(RoundHalfEven(100 * n, d))
Round1(n, d) == PyFloat(10 * RoundHalfEven(10 * n, d))

\* COUNT(DISTINCT survey_response_id) FROM the evaluation table
EvalCount(table) ==
    Cardinality({table[i].survey_response_id : i \in DOMAIN table})

\* a join that keeps one row per response id
AccuracyRows_OnePerId(table) ==
    {[eval |-> j,
      orig_overall_score |->
          (CHOOSE r \in {BackendRows[i] : i \in DOMAIN BackendRows} :
              r.response_id = table[j].survey_response_id)
          .overall_sentiment_score,
      human_overall_score |->
          table[j].human_eval_overall_sentiment_score] :
        j \in {k \in DOMAIN table :
                  \E i \in DOMAIN BackendRows :
                     BackendRows[i].response_id
                        = table[k].survey_response_id}}

\* the rows of the accuracy query: source rows INNER JOIN evaluation rows on
\* the response id, each with the two overall scores
AccuracyRows(table) ==
    LET pairs == {<<i, j>> \in (DOMAIN BackendRows) \X (DOMAIN table) :
                     BackendRows[i].response_id
                        = table[j].survey_response_id}
    IN {[src |-> p[1], eval |-> p[2],
         orig_overall_score |-> BackendRows[p[1]].overall_sentiment_score,
         human_overall_score |->
             table[p[2]].human_eval_overall_sentiment_score] : p \in pairs}

\* int(x or 0)
IntOrZero(x) == PyToInt(PyOr(x, PyInt(0))).v

Distance(a, b) == IF a < b THEN b - a ELSE a - b

\* the two ratios get_metrics_data derives from the joined rows, before
\* rounding: numerators and denominators
AccuracyCounts(accuracy_results, completed_total) ==
    [total_comparisons |-> Cardinality(accuracy_results),
     accurate_predictions |->
         Cardinality({row \in accuracy_results :
                         Distance(IntOrZero(row.orig_overall_score),
                                  IntOrZero(row.human_overall_score)) <= 1}),
     total_corrections |->
         Cardinality({row \in accuracy_results :
                         IntOrZero(row.orig_overall_score)
                            # IntOrZero(row.human_overall_score)}),
     completed_total |-> completed_total]

\* a score column beyond 0.5 on either side; a NULL compares as unknown
SqlBeyondHalf(x) == x.t \in {"int", "float"} /\ (x.v < -50 \/ x.v > 50)

\* COUNT(DISTINCT SurveyResponseId) of the rows with an extreme score
RecommendedCount ==
    Cardinality({BackendRows[i].response_id : i \in
                   {j \in DOMAIN BackendRows :
                       \/ SqlBeyondHalf(BackendRows[j].category_sentiment_score)
                       \/ SqlBeyondHalf(
                             BackendRows[j].subcategory_sentiment_score)}})

Min(a, b) == IF a < b THEN a ELSE b

\* an aggregate whose ratios start from the mock figures
MetricsData_StartsFromMock(total_reviews, completed_total, counts, accuracy_ok, recommended_ok) ==
    LET computed == accuracy_ok /\ completed_total > 0
                    /\ counts.total_comparisons > 0
    IN MetricsOverview(
          PyInt(Min(20, total_reviews)),
          PyInt(completed_total),
          PyInt(IF recommended_ok THEN RecommendedCount ELSE 0),
          PyInt(total_reviews),
          IF computed
          THEN Round2(counts.accurate_predictions, counts.total_comparisons)
          ELSE PyFloat(87),
          IF computed
          THEN Round1(counts.total_corrections, counts.completed_total)
          ELSE PyFloat(230))

\* the dict get_metrics_data returns on its regular path
MetricsData(total_reviews, completed_total, counts, accuracy_ok, recommended_ok) ==
    LET computed == accuracy_ok /\ completed_total > 0
                    /\ counts.total_comparisons > 0
    IN MetricsOverview(
          PyInt(Min(20, total_reviews)),
          PyInt(completed_total),
          PyInt(IF recommended_ok THEN RecommendedCount ELSE 0),
          PyInt(total_reviews),
          IF computed
          THEN Round2(counts.accurate_predictions, counts.total_comparisons)
          ELSE PyFloat(0),
          IF computed
          THEN Round1(counts.total_corrections, counts.completed_total)
          ELSE PyFloat(0))

NoCounts ==
    [total_comparisons |-> 0, accurate_predictions |-> 0,
     total_corrections |-> 0, completed_total |-> 0]

\* the sub-query named, when it raised
Raised(query, ok) == IF ok THEN {} ELSE {query}

\* GET /metrics/overview.  Mock mode, or a client that cannot be had, gives
\* the mock metrics; a failed source count gives the defaults; a failed
\* evaluation count reads as no evaluation.  With no evaluation counted the
\* accuracy query is not issued and the request returns from this step.
GetMetricsOverview(w, use_databricks) ==
    /\ CanBegin(w)
    /\ started' = started + 1
    /\ LET r == [NoRequest EXCEPT !.kind = "metrics",
                                  !.use_databricks = use_databricks]
       IN IF ~use_databricks
          THEN req' = [req EXCEPT ![w] = Finish(r, get_mock_metrics)]
          ELSE \E client_ok \in BOOLEAN, source_ok \in BOOLEAN,
                  eval_ok \in BOOLEAN, recommended_ok \in BOOLEAN :
             LET total_reviews == Cardinality(SourceIds)
                 completed_total ==
                     IF eval_ok /\ evalTableExists THEN EvalCount(evalTable)
                     ELSE 0
             IN IF ~client_ok
                THEN req' = [req EXCEPT ![w] = Finish(r, get_mock_metrics)]
                ELSE IF ~source_ok
                THEN req' = [req EXCEPT ![w] =
                        [Finish(r, DefaultMetrics)
                         EXCEPT !.human = [failed |-> {"source"}]]]
                ELSE IF completed_total > 0
                THEN req' = [req EXCEPT ![w] =
                        [r EXCEPT !.pc = "accuracy_query",
                                  !.original =
                                     [total_reviews |-> total_reviews,
                                      completed_total |-> completed_total]]]
                ELSE req' = [req EXCEPT ![w] =
                        [Finish(r, MetricsData(total_reviews, 0, NoCounts,
                                               TRUE, recommended_ok))
                         EXCEPT !.machine = [completed_total |-> 0],
                                !.human =
                                   [failed |->
                                      Raised("evaluated",
                                             eval_ok /\ evalTableExists)
                                      \cup Raised("recommended",
                                                  recommended_ok)]]]
    /\ UNCHANGED <<pure, evalTable, evalTableExists, recTableExists, clock,
                   mockValidated, merged>>

\* get_metrics_data, the accuracy query and the recommended count.  The
\* request keeps the counts its ratios were derived from, and (in human)
\* the sub-queries that raised.
AccuracyQuery(w) ==
    /\ req[w].pc = "accuracy_query"
    /\ \E accuracy_ok \in BOOLEAN, recommended_ok \in BOOLEAN :
         LET counts == AccuracyCounts(AccuracyRows(evalTable),
                                      req[w].original.completed_total)
         IN req' = [req EXCEPT ![w] =
               [Finish(req[w],
                       MetricsData(req[w].original.total_reviews,
                                   req[w].original.completed_total,
                                   counts, accuracy_ok, recommended_ok))
                EXCEPT !.machine = IF accuracy_ok THEN counts
                                   ELSE [completed_total |->
                                            counts.completed_total],
                       !.human =
                          [failed |->
                             Raised("accuracy", accuracy_ok)
                             \cup Raised("recommended", recommended_ok)]]]
    /\ UNCHANGED <<pure, evalTable, evalTableExists, recTableExists, clock,
                   mockValidated, started, merged>>

\* query parameters the listings of the model are asked with
ListStatuses == {"random_sample", "completed", "recommended"}
ListPages == {[limit |-> 10, offset |-> 0], [limit |-> 1, offset |-> 1]}
ListStores == {None, PyStr(<<"12">>)}

Next ==
    \/ \E w \in Workers, id \in RequestIds, v \in Validations,
          use_databricks \in BOOLEAN :
            BeginValidate(w, id, v, use_databricks)
    \/ \E w \in Workers, id \in DetailIds, use_databricks \in BOOLEAN :
            BeginDetail(w, id, use_databricks)
    \/ \E w \in Workers, status \in ListStatuses, page \in ListPages,
          store_id \in ListStores, use_databricks \in BOOLEAN :
            GetReviews(w, status, page.limit, page.offset, store_id,
                       use_databricks)
    \/ \E w \in Workers, page \in ListPages, use_databricks \in BOOLEAN :
            RefreshRandomSample(w, page.limit, use_databricks)
    \/ \E w \in Workers, use_databricks \in BOOLEAN :
            GetMetricsOverview(w, use_databricks)
    \/ \E w \in Workers : AccuracyQuery(w)
    \/ \E w \in Workers : EvalQuery(w)
    \/ \E w \in Workers : SourceQuery(w)
    \/ \E w \in Workers : EnsureEvalTable(w)
    \/ \E w \in Workers : EnsureRecTable(w)
    \/ \E w \in Workers : MergeStep(w)

Spec == Init /\ [][Next]_vars

(***************************************************************************)
(* The conversions and the upsert builder called on their own: a call is   *)
(* drawn with its arguments and then returns.                              *)
(***************************************************************************)
serviceVars == <<evalTable, evalTableExists, recTableExists, clock,
                 mockValidated, req, started, merged>>

Call(op, arg) == [op |-> op, arg |-> arg, returned |-> FALSE, out |-> None]

\* a flattened row of response S1
FlatRow(relevancy, cat, cscore, sub, sscore) ==
    SrcRow(<<"S1">>, PyStr(<<"COMMENT">>), PyStr(<<"ok">>),
           PyStr(relevancy), PyBool(FALSE), None,
           PyStr(<<"Positive">>), PyInt(4),
           cat, PyStr(<<"Positive">>), cscore,
           sub, PyStr(<<"Negative">>), sscore,
           PyStr(<<"12">>), PyDateTime(7))

\* category, subcategory and score columns: populated, empty and NULL names,
\* scores on both sides of 0.5
FlatCategories == {PyStr(<<"Food">>), PyStr(<<>>)}
FlatSubcategories == {PyStr(<<"Quality">>), None}
FlatCategoryScores == {PyFloat(50), PyFloat(51), PyFloat(-51)}
FlatSubcategoryScores == {PyFloat(-50), PyFloat(51)}

FlatRows ==
    {FlatRow(STR_useful, cat, cscore, sub, sscore) :
        cat \in FlatCategories, cscore \in FlatCategoryScores,
        sub \in FlatSubcategories, sscore \in FlatSubcategoryScores}

\* non-empty groups of at most MaxRows rows
FlatGroups == UNION {[1..n -> FlatRows] : n \in 1..MaxRows}

\* relevancy strings the pipeline writes, and others in either case
RelevancyValues ==
    {STR_useful, STR_profane_but_useful, STR_nonsense_or_irrelevant,
     <<"N","o","n","s","e","n","s","e">>,
     <<"I","R","R","E","L","E","V","A","N","T">>,
     <<"I","r","r","e","l","e","v","a","n","t"," ","c","o","m","m","e","n","t">>,
     <<"n","o","t"," ","r","e","l","e","v","a","n","t">>,
     <<"n","o","n"," ","s","e","n","s","e">>,
     <<"U","S","E","F","U","L">>,
     <<>>}

RelevancyGroups ==
    {<<FlatRow(relevancy, PyStr(<<"Food">>), PyFloat(0),
               PyStr(<<"Quality">>), PyFloat(0))>> :
        relevancy \in RelevancyValues}

\* the evaluation-table row an accepted review leaves behind
AcceptedRow(review) ==
    InsertedRow(UpsertSource(review.response_id, HumanEvalAccept(review),
                             MachineEvalData(review), LEGACY_MODEL), 1)

AcceptedRows ==
    {AcceptedRow(convert_flattened_rows_to_review(<<row>>)) : row \in FlatRows}

\* arguments of write_human_evaluation_optimized: ids, model versions, and
\* evaluations that differ in the flags and in the machine's predictions
BuilderIds == {<<"S1">>, <<"S2">>}
BuilderModels == {LEGACY_MODEL, <<"human_validation_v3_optimized">>}
BuilderReview(id) == convert_flattened_rows_to_review(RowsOf(id))
BuilderHumans ==
    {[HumanEvalAccept(BuilderReview(<<"S1">>)) EXCEPT
         !.irrelevant = PyBool(irrelevant), !.profane = PyBool(profane)] :
        irrelevant \in BOOLEAN, profane \in BOOLEAN}
BuilderMachines == {MachineEvalData(BuilderReview(id)) : id \in BuilderIds}
\* a response id with a quote in it
QuotedId == <<"O", "'", "1">>
BuilderArgs ==
    [survey_response_id : BuilderIds \cup {QuotedId},
     human_eval_data : BuilderHumans,
     machine_eval_data : BuilderMachines, evaluation_model : BuilderModels]

\* the builder is called twice
BuilderPairs == BuilderArgs \X BuilderArgs

\* unevaluated reviews of each relevancy class the pipeline writes, with the
\* profanity flag set, clear and NULL
ClassifiedGroups ==
    {<<[FlatRow(relevancy, PyStr(<<"Food">>), PyFloat(0),
                PyStr(<<"Quality">>), PyFloat(0))
        EXCEPT !.profane = profane]>> :
        relevancy \in {STR_useful, STR_profane_but_useful,
                       STR_nonsense_or_irrelevant},
        profane \in {PyBool(TRUE), PyBool(FALSE), None}}

\* the columns of an evaluation row the metric queries read
MetricRow(id, score) ==
    [survey_response_id |-> PyStr(id),
     human_eval_overall_sentiment_score |-> score]

\* evaluated ids: the source ids, and one the source table does not have
MetricIds == SourceIds \cup {<<"R001">>}

\* human scores: NULL, and scores at each distance from the source's 2 and 4
MetricScores == {None, PyInt(2), PyInt(4)}

\* evaluation tables of at most MaxRows rows, one row per id
MetricTables ==
    {t \in UNION {[1..n -> {MetricRow(id, score) :
                               id \in MetricIds, score \in MetricScores}] :
                     n \in 1..MaxRows} :
        \A i, j \in DOMAIN t :
           t[i].survey_response_id = t[j].survey_response_id => i = j}

PureCalls ==
    {Call("get_reviews", rows) : rows \in FlatGroups \cup RelevancyGroups}
    \cup {Call("convert_completed_review_to_summary", row) :
             row \in AcceptedRows}
    \cup {Call("write_human_evaluation_optimized", pair) :
             pair \in BuilderPairs}
    \cup {Call("get_metrics_data", table) : table \in MetricTables}
    \cup {Call("validate_review", rows) : rows \in ClassifiedGroups}

Returns(out) == pure' = [pure EXCEPT !.returned = TRUE, !.out = out]

\* the grouping loop of get_reviews on the rows a query returned
ConvertGroups ==
    /\ pure.op = "get_reviews"
    /\ ~pure.returned
    /\ Returns(GroupAndConvert(pure.arg))
    /\ UNCHANGED serviceVars

\* convert_completed_review_to_summary on a row of the evaluation SELECT
ConvertCompleted ==
    /\ pure.op = "convert_completed_review_to_summary"
    /\ ~pure.returned
    /\ Returns(convert_completed_review_to_summary(EvalSelectRow(pure.arg)))
    /\ UNCHANGED serviceVars

\* the USING row write_human_evaluation_optimized builds, in each of two calls
BuildUpsert ==
    /\ pure.op = "write_human_evaluation_optimized"
    /\ ~pure.returned
    /\ Returns([k \in 1..2 |->
                  UpsertSource(pure.arg[k].survey_response_id,
                               pure.arg[k].human_eval_data,
                               pure.arg[k].machine_eval_data,
                               pure.arg[k].evaluation_model)])
    /\ UNCHANGED serviceVars

\* get_metrics_data over an evaluation table, every query succeeding: the
\* dict it returns, and the counts its two ratios are derived from
ComputeMetrics ==
    /\ pure.op = "get_metrics_data"
    /\ ~pure.returned
    /\ LET completed_total == EvalCount(pure.arg)
           counts == AccuracyCounts(AccuracyRows(pure.arg), completed_total)
       IN Returns([counts |-> counts,
                   metrics |-> MetricsData(Cardinality(SourceIds),
                                           completed_total, counts,
                                           TRUE, TRUE)])
    /\ UNCHANGED serviceVars

\* validate_review with decision accept on the review of source rows, every
\* warehouse call succeeding: the row the MERGE inserts
AcceptSourceRows ==
    /\ pure.op = "validate_review"
    /\ ~pure.returned
    /\ Returns(AcceptedRow(convert_flattened_rows_to_review(pure.arg)))
    /\ UNCHANGED serviceVars

PureInit == ServiceInit /\ pure \in PureCalls

PureNext ==
    \/ ConvertGroups \/ ConvertCompleted \/ BuildUpsert \/ ComputeMetrics
    \/ AcceptSourceRows

PureSpec == PureInit /\ [][PureNext]_vars

(***************************************************************************)
(* The writer entry points called one after the other.  A call runs both   *)
(* table checks and the MERGE; pure keeps the last call and what it        *)
(* returned.                                                               *)
(***************************************************************************)
FLATTENED_MODEL == <<"human_validation_v2_flattened">>
OPTIMIZED_MODEL == <<"human_validation_v3_optimized">>

\* evaluations a writer is called with: the review as displayed, and the
\* review flagged irrelevant
WriterHumans ==
    {[HumanEvalAccept(BuilderReview(id)) EXCEPT
         !.irrelevant = PyBool(irrelevant)] :
        id \in BuilderIds, irrelevant \in BOOLEAN}

\* write_human_evaluation_optimized: both tables are looked for and created
\* when missing (a failure there raises), then the MERGE runs and its
\* failure is returned as False
write_human_evaluation_optimized(survey_response_id, human_eval_data, machine_eval_data, evaluation_model) ==
    /\ started' = started + 1
    /\ \E eval_ok \in BOOLEAN, rec_ok \in BOOLEAN, ok \in BOOLEAN :
         LET source == UpsertSource(survey_response_id, human_eval_data,
                                    machine_eval_data, evaluation_model)
             success == /\ eval_ok /\ rec_ok /\ ok
                        /\ UpsertWellFormed(source)
         IN /\ evalTableExists' = (evalTableExists \/ eval_ok)
            /\ recTableExists' = (recTableExists \/ (eval_ok /\ rec_ok))
            /\ IF success
               THEN /\ evalTable' = Merge(evalTable, source, clock + 1)
                    /\ clock' = clock + 1
               ELSE UNCHANGED <<evalTable, clock>>
            /\ pure' = [op |-> "write_human_evaluation_optimized",
                        arg |-> [survey_response_id |-> survey_response_id,
                                 human_eval_data |-> human_eval_data,
                                 evaluation_model |-> evaluation_model],
                        returned |-> eval_ok /\ rec_ok,
                        out |-> PyBool(success)]
    /\ UNCHANGED <<mockValidated, req, merged>>

\* write_human_evaluation, with its default model version
write_human_evaluation ==
    /\ started < MaxWrites
    /\ \E id \in BuilderIds, human \in WriterHumans :
          write_human_evaluation_optimized(
             id, human, MachineEvalData(BuilderReview(id)), LEGACY_MODEL)

\* write_human_evaluation_flattened, with its default model version
write_human_evaluation_flattened ==
    /\ started < MaxWrites
    /\ \E id \in BuilderIds, human \in WriterHumans :
          write_human_evaluation_optimized(
             id, human, MachineEvalData(BuilderReview(id)), FLATTENED_MODEL)

\* write_human_evaluation_optimized called with its default model version
WriteOptimized ==
    /\ started < MaxWrites
    /\ \E id \in BuilderIds, human \in WriterHumans :
          write_human_evaluation_optimized(
             id, human, MachineEvalData(BuilderReview(id)), OPTIMIZED_MODEL)

WriterNext ==
    write_human_evaluation \/ write_human_evaluation_flattened
       \/ WriteOptimized

WriterSpec == Init /\ [][WriterNext]_vars

(***************************************************************************)
(* Properties                                                              *)
(***************************************************************************)
\* the human-eval columns of an evaluation row, and its response_relevancy
HumanColumns(row) ==
    [response_relevancy |-> row.response_relevancy,
     human_eval_profane |-> row.human_eval_profane,
     human_eval_rewritten_comment |-> row.human_eval_rewritten_comment,
     human_eval_irrelevant |-> row.human_eval_irrelevant,
     human_eval_overall_sentiment_label |->
         row.human_eval_overall_sentiment_label,
     human_eval_overall_sentiment_score |->
         row.human_eval_overall_sentiment_score,
     human_eval_category_sentiments |-> row.human_eval_category_sentiments]

\* the same columns as a validation hands them over: the relevancy class of
\* its flags, its values, and its category sentiments as JSON text
HandedColumns(human) ==
    [response_relevancy |->
         PyStr(IF human.irrelevant = PyBool(TRUE)
               THEN STR_nonsense_or_irrelevant
               ELSE IF human.profane = PyBool(TRUE)
               THEN STR_profane_but_useful ELSE STR_useful),
     human_eval_profane |-> human.profane,
     human_eval_rewritten_comment |-> human.rewritten_comment,
     human_eval_irrelevant |-> human.irrelevant,
     human_eval_overall_sentiment_label |-> human.overall_sentiment_label,
     human_eval_overall_sentiment_score |-> human.overall_sentiment_score,
     human_eval_category_sentiments |-> PyJson(human.category_sentiments.v)]

\* worker w executes its MERGE in this step
MergeExecutedBy(w) ==
    req[w].pc = "merge" /\ req'[w].pc = "done" /\ clock' # clock

\* C1: when a validation succeeds on a response id that has been validated
\* before, the evaluation table holds exactly one row for the id afterwards,
\* and the row's human-eval columns and response_relevancy are the ones this
\* second validation handed over.
C1_SecondValidationReplaces ==
    [][\A w \in Workers :
         (MergeExecutedBy(w) /\ merged[req[w].id] # <<>>) =>
            LET rows == EvalRowsOf(evalTable', req[w].id)
            IN /\ Len(rows) = 1
               /\ HumanColumns(rows[1]) = HandedColumns(req[w].human)]_vars

\* C1 witness: S1 validated twice, one after the other (the second validation
\* displayed the evaluation row, which has no store), with different
\* corrections; one row holds the second ones.
C1_Witness ==
    /\ Len(merged[<<"S1">>]) = 2
    /\ merged[<<"S1">>][2].human.store_id = None
    /\ HandedColumns(merged[<<"S1">>][1].human)
          # HandedColumns(merged[<<"S1">>][2].human)
    /\ Len(EvalRowsOf(evalTable, <<"S1">>)) = 1
    /\ HumanColumns(EvalRowsOf(evalTable, <<"S1">>)[1])
          = HandedColumns(merged[<<"S1">>][2].human)


\* C2: in every state reached by any interleaving of validate requests, the
\* evaluation table has at most one row per response id, and once a MERGE
\* has executed for an id its one row carries the human-eval values handed
\* over by the request whose MERGE ran last.
C2_OneRowLastMergeWins ==
    \A id \in RequestIds :
        LET rows == EvalRowsOf(evalTable, id)
        IN /\ Len(rows) <= 1
           /\ merged[id] # <<>> =>
                 /\ Len(rows) = 1
                 /\ HumanColumns(rows[1])
                       = HandedColumns(merged[id][Len(merged[id])].human)

\* C2 witness: two validations of S1 were in flight together, both read the
\* source rows before either MERGE ran, both MERGEs executed with different
\* values, and one row is left.
C2_Witness ==
    /\ \A w \in Workers :
          /\ req[w].kind = "validate" /\ req[w].pc = "done"
          /\ req[w].id = <<"S1">>
          /\ ~IsError(req[w].result)
    /\ Len(merged[<<"S1">>]) = 2
    /\ merged[<<"S1">>][2].human.store_id # None
    /\ HandedColumns(merged[<<"S1">>][1].human)
          # HandedColumns(merged[<<"S1">>][2].human)
    /\ Len(EvalRowsOf(evalTable, <<"S1">>)) = 1

\* r is a validate request with decision skip
IsSkip(r) == r.kind = "validate" /\ r.validation.decision = "skip"

\* C3: a validate request with decision skip never reaches the upsert (the
\* table checks or the MERGE), and no step of it changes the rows of the
\* evaluation table or whether the table exists.
C3_SkipWritesNothing ==
    [][\A w \in Workers :
         (IsSkip(req'[w]) /\ req'[w] # req[w]) =>
            /\ req'[w].pc \notin {"ensure_eval", "ensure_rec", "merge"}
            /\ evalTable' = evalTable
            /\ evalTableExists' = evalTableExists
            /\ merged' = merged]_vars

\* C3 witness: a skip of the source review S1 has returned success, and the
\* evaluation table still has no row for S1.
C3_Witness ==
    \E w \in Workers :
        /\ IsSkip(req[w]) /\ req[w].pc = "done" /\ req[w].use_databricks
        /\ req[w].id = <<"S1">>
        /\ ~IsError(req[w].result)
        /\ EvalRowsOf(evalTable, <<"S1">>) = <<>>

\* C4 as claimed: every skip that has returned has returned success, whatever
\* the review id.
C4_SkipAlwaysSucceeds ==
    \A w \in Workers :
        (IsSkip(req[w]) /\ req[w].pc = "done") =>
            /\ ~IsError(req[w].result)
            /\ req[w].result.success
            /\ req[w].result.review_id = req[w].id
            /\ req[w].result.decision = "skip"

\* the ids a review can be obtained for: in the mock data, in the source
\* table, or with a row in the evaluation table
Obtainable(id, use_databricks) ==
    IF use_databricks
    THEN id \in SourceIds \cup MockIds \/ EvalRowsOf(evalTable, id) # <<>>
    ELSE id \in MockIds

\* C4 amended: a skip returns success (review id echoed, decision skip)
\* exactly when the review was obtained first; an id for which no review can
\* be obtained gets 404, and the only other outcome is the 500 of a failed
\* conversion.
C4_SkipSucceedsWhenFound ==
    \A w \in Workers :
        (IsSkip(req[w]) /\ req[w].pc = "done") =>
            /\ req[w].found <=> ~IsError(req[w].result)
            /\ ~IsError(req[w].result) =>
                  /\ req[w].result.success
                  /\ req[w].result.review_id = req[w].id
                  /\ req[w].result.decision = "skip"
                  /\ Obtainable(req[w].id, req[w].use_databricks)
            /\ IsError(req[w].result) =>
                  req[w].result.http_error \in {404, 500}
            /\ ~Obtainable(req[w].id, req[w].use_databricks) =>
                  req[w].result = HttpError(404, "Review not found")

\* C4 witness: one skip of a review that exists has succeeded and one skip of
\* an id that is nowhere has been answered 404.
C4_Witness ==
    /\ IsSkip(req["w1"]) /\ req["w1"].pc = "done"
    /\ IsSkip(req["w2"]) /\ req["w2"].pc = "done"
    /\ \E w \in Workers :
          /\ req[w].id = <<"S1">> /\ req[w].use_databricks
          /\ ~IsError(req[w].result)
    /\ \E w \in Workers :
          /\ req[w].id = <<"Q404">> /\ req[w].use_databricks
          /\ req[w].result = HttpError(404, "Review not found")


\* the reviews a pending listing has returned: the body of GET /reviews with
\* status random_sample, or the sample of refresh-random-sample
PendingListed(r) ==
    IF r.kind = "list" /\ r.validation.status = "random_sample" THEN r.result
    ELSE IF r.kind = "refresh" THEN r.original
    ELSE <<>>

\* C5: a pending listing served from the warehouse (use_databricks true)
\* returns no review whose response id has a row in the evaluation table at
\* the time of the listing.
C5_PendingExcludesEvaluated ==
    [][\A w \in Workers :
         (req'[w] # req[w] /\ req'[w].use_databricks) =>
            \A i \in DOMAIN PendingListed(req'[w]) :
                EvalRowsOf(evalTable,
                           PendingListed(req'[w])[i].response_id) = <<>>]_vars

\* C6: a single-review fetch (use_databricks true) of an id that had a row in
\* the evaluation table when the fetch began returns a completed review that
\* carries the human-eval values of one of the validations of that id.
C6_EvaluationWins ==
    \A w \in Workers :
        (/\ req[w].kind = "detail" /\ req[w].pc = "done"
         /\ req[w].use_databricks
         /\ req[w].rowsAtStart # <<>>) =>
            /\ ~IsError(req[w].result)
            /\ req[w].result.validation_status = PyStr(<<"completed">>)
            /\ \E k \in DOMAIN merged[req[w].id] :
                 LET h == merged[req[w].id][k].human
                 IN /\ req[w].result.profane = PyBool(Truthy(h.profane))
                    /\ req[w].result.rewritten_comment = h.rewritten_comment
                    /\ req[w].result.sentiment_analysis.irrelevant
                          = PyBool(Truthy(h.irrelevant))
                    /\ req[w].result.overall_sentiment_label
                          = h.overall_sentiment_label
                    /\ req[w].result.overall_sentiment_score
                          = h.overall_sentiment_score

\* r is a validate request that has built what it hands to the upsert
HandsOver(r) ==
    r.kind = "validate" /\ r.pc \in {"ensure_eval", "ensure_rec", "merge"}

\* C7: on decision accept every human-eval field handed to the upsert equals
\* the same field of the displayed review.
C7_AcceptCopiesDisplayed ==
    \A w \in Workers :
        (HandsOver(req[w]) /\ req[w].validation.decision = "accept") =>
            LET h == req[w].human
                d == req[w].original
            IN /\ h.irrelevant = d.sentiment_analysis.irrelevant
               /\ h.profane = d.profane
               /\ h.rewritten_comment = d.rewritten_comment
               /\ h.overall_sentiment_label = d.overall_sentiment_label
               /\ h.overall_sentiment_score = d.overall_sentiment_score
               /\ h.category_sentiments = d.category_sentiments
               /\ h.question_label = d.question_label
               /\ h.question_response = d.question_response

\* the value of a correctable field: the caller's when updated_labels carries
\* the field, the displayed review's otherwise
Corrected(updated_labels, field, displayed) ==
    IF field \in DOMAIN updated_labels THEN updated_labels[field]
    ELSE displayed

\* C8: on decision override each correctable field handed to the upsert is the
\* caller's value when updated_labels carries it and the displayed review's
\* value otherwise.
C8_OverrideFallsBackPerField ==
    \A w \in Workers :
        (HandsOver(req[w]) /\ req[w].validation.decision = "override") =>
            LET h == req[w].human
                d == req[w].original
                u == req[w].validation.updated_labels
            IN /\ h.irrelevant =
                     IF "sentiment_analysis" \in DOMAIN u
                        /\ "irrelevant" \in DOMAIN u.sentiment_analysis
                     THEN u.sentiment_analysis.irrelevant
                     ELSE d.sentiment_analysis.irrelevant
               /\ h.profane = Corrected(u, "profane", d.profane)
               /\ h.rewritten_comment =
                     Corrected(u, "rewritten_comment", d.rewritten_comment)
               /\ h.overall_sentiment_label =
                     Corrected(u, "overall_sentiment_label",
                               d.overall_sentiment_label)
               /\ h.overall_sentiment_score =
                     Corrected(u, "overall_sentiment_score",
                               d.overall_sentiment_score)
               /\ h.category_sentiments =
                     Corrected(u, "category_sentiments",
                               d.category_sentiments)

\* C9: for accept and override alike the machine-eval values handed to the
\* upsert are the displayed review's values.
C9_MachineSnapshot ==
    \A w \in Workers :
        HandsOver(req[w]) =>
            LET m == req[w].machine
                d == req[w].original
            IN /\ m.profane = d.profane
               /\ m.rewritten_comment = d.rewritten_comment
               /\ m.irrelevant = d.sentiment_analysis.irrelevant
               /\ m.overall_sentiment_label = d.overall_sentiment_label
               /\ m.overall_sentiment_score = d.overall_sentiment_score
               /\ m.category_sentiments = d.category_sentiments

\* worker w's accept or override, served from the warehouse, returns in this
\* step
WriteReturns(w) ==
    /\ req[w].kind = "validate" /\ req[w].use_databricks
    /\ req[w].validation.decision # "skip"
    /\ req[w].pc # "done" /\ req'[w].pc = "done"

\* C10: an accept or override served from the warehouse returns success only
\* from a MERGE that executed, leaving the id's one row with the values it
\* handed over; the MERGE is reached only with both tables in place; and a
\* request that returns from a failed table check/creation or a failed MERGE
\* returns HTTP 500 and leaves the rows of the evaluation table as they were.
C10_SuccessOnlyAfterUpsert ==
    [][\A w \in Workers :
         /\ req'[w].pc = "ensure_rec" => evalTableExists'
         /\ req'[w].pc = "merge" => evalTableExists' /\ recTableExists'
         /\ WriteReturns(w) =>
              IF IsError(req'[w].result)
              THEN /\ evalTable' = evalTable
                   /\ HandsOver(req[w]) => req'[w].result.http_error = 500
              ELSE /\ req[w].pc = "merge"
                   /\ req'[w].result.success
                   /\ clock' = clock + 1
                   /\ LET rows == EvalRowsOf(evalTable', req[w].id)
                      IN /\ Len(rows) = 1
                         /\ HumanColumns(rows[1])
                               = HandedColumns(req[w].human)]_vars

\* C10 witness: an accept or override of S1 got as far as the MERGE, the
\* MERGE failed, the caller was answered 500, and S1 has no row.
C10_Witness ==
    \E w \in Workers :
        /\ req[w].kind = "validate" /\ req[w].pc = "done"
        /\ req[w].use_databricks /\ req[w].id = <<"S1">>
        /\ req[w].validation.decision # "skip"
        /\ req[w].result =
              HttpError(500, "Failed to write evaluation to database")
        /\ evalTableExists /\ recTableExists
        /\ EvalRowsOf(evalTable, <<"S1">>) = <<>>

(***************************************************************************)
(* Listings, details and metrics                                           *)
(***************************************************************************)
IsSummary(r) ==
    /\ ~IsError(r)
    /\ {"response_id", "status", "sentiment_analysis"} \subseteq DOMAIN r

ListReturned(r) == r.kind = "list" /\ r.pc = "done"

\* C11: GET /reviews never fails.  Every list it returns holds review
\* summaries and nothing else: a group of source rows whose conversion raises
\* (S3) is left out, never passed on as an error.  While the evaluation table
\* is missing, so that the query of a pending or completed listing is certain
\* to raise, the list is made of mock reviews of the status asked for.
C11_ListNeverFails ==
    \A w \in Workers :
        ListReturned(req[w]) =>
            /\ \A i \in DOMAIN req[w].result :
                  /\ IsSummary(req[w].result[i])
                  /\ req[w].result[i].response_id # <<"S3">>
            /\ ( /\ req[w].use_databricks
                 /\ req[w].validation.status \in {"random_sample", "completed"}
                 /\ ~evalTableExists )
               => \A i \in DOMAIN req[w].result :
                     /\ req[w].result[i].response_id \in MockIds
                     /\ req[w].result[i].status = req[w].validation.status

\* a warehouse listing of every pending source review: S3 was sampled with
\* S1 and S2 and is not in the list
C11_Witness ==
    \E w \in Workers :
        /\ ListReturned(req[w])
        /\ req[w].use_databricks
        /\ req[w].validation.status = "random_sample"
        /\ Len(req[w].result) = 2
        /\ {req[w].result[i].response_id : i \in DOMAIN req[w].result}
              = {<<"S1">>, <<"S2">>}

DetailReturned(r) == r.kind = "detail" /\ r.pc = "done"

\* the detail of the review asked for
DetailOf(r) == IsSummary(r.result) /\ r.result.response_id = r.id

NotFound(r) == IsError(r.result) /\ r.result.http_error = 404

\* C12 as claimed: GET /reviews/{id} answers with the detail of the review
\* asked for or with 404, and with nothing else, whatever the warehouse holds
\* and whichever query fails.
C12_DetailOr404 ==
    \A w \in Workers :
        DetailReturned(req[w]) => DetailOf(req[w]) \/ NotFound(req[w])

\* C12: GET /reviews/{id} answers with the detail of the review asked for,
\* with 404, or with 500 "Data conversion error"; the 500 only in warehouse
\* mode and only for an id whose source rows cannot be converted (S3).
C12_DetailOr404Or500 ==
    \A w \in Workers :
        DetailReturned(req[w]) =>
            \/ DetailOf(req[w])
            \/ NotFound(req[w])
            \/ /\ req[w].result = HttpError(500, "Data conversion error")
               /\ req[w].use_databricks
               /\ req[w].id = <<"S3">>

\* the detail of S3 was asked for and answered 500
C12_Witness ==
    \E w \in Workers :
        /\ DetailReturned(req[w])
        /\ req[w].id = <<"S3">>
        /\ IsError(req[w].result)
        /\ req[w].result.http_error = 500

(***************************************************************************)
(* Conversions and the upsert builder                                      *)
(***************************************************************************)
Returned(op) == pure.op = op /\ pure.returned

Populated(x) == x # None /\ x # PyStr(<<>>)

\* C13: a non-empty group of flattened rows of one response id is converted
\* to exactly one review summary, of that id, whose sentiment entries are the
\* rows with both a category and a subcategory, one entry per such row and in
\* the order of the rows; the other rows leave no entry.
C13_OneSummaryPerGroup ==
    Returned("get_reviews") =>
        LET Both(row) == Populated(row.comment_category)
                         /\ Populated(row.comment_subcategory)
            kept == SelectSeq(pure.arg, Both)
        IN /\ Len(pure.out) = 1
           /\ IsSummary(pure.out[1])
           /\ pure.out[1].response_id = <<"S1">>
           /\ pure.out[1].category_sentiments
                 = pure.out[1].sentiment_analysis.category_sentiments
           /\ LET entries == pure.out[1].category_sentiments.v
              IN /\ Len(entries) = Len(kept)
                 /\ \A i \in DOMAIN entries :
                       /\ entries[i].category = kept[i].comment_category
                       /\ entries[i].subcategory = kept[i].comment_subcategory
                       /\ entries[i].category_sentiment_score.v
                             = kept[i].category_sentiment_score.v
                       /\ entries[i].subcategory_sentiment_score.v
                             = kept[i].subcategory_sentiment_score.v

\* a group of two rows, the first without a subcategory, gave one entry
C13_Witness ==
    /\ Returned("get_reviews")
    /\ Len(pure.arg) = 2
    /\ pure.arg[1].comment_subcategory = None
    /\ Populated(pure.arg[2].comment_category)
    /\ Populated(pure.arg[2].comment_subcategory)
    /\ Len(pure.out) = 1
    /\ Len(pure.out[1].category_sentiments.v) = 1

\* the relevancy values of the model that name nonsense or irrelevance, in
\* whatever case and with whatever follows
NamesIrrelevance ==
    {STR_nonsense_or_irrelevant,
     <<"N","o","n","s","e","n","s","e">>,
     <<"I","R","R","E","L","E","V","A","N","T">>,
     <<"I","r","r","e","l","e","v","a","n","t"," ","c","o","m","m","e","n","t">>}

\* C14: the converted review's irrelevant flag is true exactly when the
\* relevancy string of the group's first row, lower-cased, contains
\* "irrelevant" or "nonsense"; "useful", "profane but useful" and every other
\* value give false.
C14_IrrelevantIffSubstring ==
    Returned("get_reviews") =>
        LET relevancy == pure.arg[1].response_relevancy.v
        IN /\ pure.out[1].sentiment_analysis.irrelevant
                 = PyBool(relevancy \in NamesIrrelevance)
           /\ relevancy \in {STR_useful, STR_profane_but_useful}
                 => pure.out[1].sentiment_analysis.irrelevant = PyBool(FALSE)

\* "IRRELEVANT" in capitals was converted, and flagged
C14_Witness ==
    /\ Returned("get_reviews")
    /\ pure.arg[1].response_relevancy.v
          = <<"I","R","R","E","L","E","V","A","N","T">>
    /\ pure.out[1].sentiment_analysis.irrelevant = PyBool(TRUE)

\* a score, in hundredths, beyond 0.5 on either side
BeyondHalf(score) == score.v > 50 \/ score.v < -50

\* C15: a review built from source rows is "recommended" exactly when a row
\* that gives a sentiment entry has a category or subcategory score beyond 0.5
\* in absolute value (0.51 and -0.51 flag, 0.5 and -0.5 do not), and
\* "random_sample" otherwise; a review built from an evaluation-table row is
\* "completed" whatever the scores of its entries.
C15_FlaggedBeyondHalf ==
    /\ Returned("get_reviews") =>
          LET flagged ==
                 \E i \in DOMAIN pure.arg :
                    /\ Populated(pure.arg[i].comment_category)
                    /\ Populated(pure.arg[i].comment_subcategory)
                    /\ \/ BeyondHalf(pure.arg[i].category_sentiment_score)
                       \/ BeyondHalf(pure.arg[i].subcategory_sentiment_score)
          IN pure.out[1].status = IF flagged THEN "recommended"
                                  ELSE "random_sample"
    /\ Returned("convert_completed_review_to_summary") =>
          /\ IsSummary(pure.out)
          /\ pure.out.status = "completed"

\* a row with scores of exactly 0.5 and -0.5 gave a review that is not flagged
C15_Witness ==
    /\ Returned("get_reviews")
    /\ Len(pure.arg) = 1
    /\ Populated(pure.arg[1].comment_category)
    /\ Populated(pure.arg[1].comment_subcategory)
    /\ pure.arg[1].category_sentiment_score = PyFloat(50)
    /\ pure.arg[1].subcategory_sentiment_score = PyFloat(-50)
    /\ pure.out[1].status = "random_sample"

(***************************************************************************)
(* Validation with decision accept                                         *)
(***************************************************************************)
IsAccept(r) ==
    r.kind = "validate" /\ r.validation.decision = "accept" /\ r.use_databricks

MetricsReturned(r) == r.kind = "metrics" /\ r.pc = "done"

\* C17: when the metrics aggregate counts no evaluated review (the count is
\* 0, or the evaluation table cannot be read and the count is taken as 0), it
\* reports accuracy 0.0 and corrections-per-review 0.0; it divides only by
\* counts that are positive.
C17_NoEvaluationsZeroRatios ==
    \A w \in Workers :
        MetricsReturned(req[w]) =>
            /\ req[w].result.completed_today = PyInt(0)
                  => /\ req[w].result.average_accuracy = PyFloat(0)
                     /\ req[w].result.corrections_per_review = PyFloat(0)
            /\ (req[w].use_databricks /\ ~evalTableExists
                   /\ req[w].result # get_mock_metrics)
                  => /\ req[w].result.completed_today = PyInt(0)
                     /\ req[w].result.average_accuracy = PyFloat(0)
                     /\ req[w].result.corrections_per_review = PyFloat(0)
            /\ req[w].result.average_accuracy # PyFloat(0)
                  => req[w].result = get_mock_metrics
                     \/ /\ req[w].machine.total_comparisons > 0
                        /\ req[w].machine.completed_total > 0
            /\ req[w].result.corrections_per_review # PyFloat(0)
                  => req[w].result = get_mock_metrics
                     \/ /\ req[w].machine.total_comparisons > 0
                        /\ req[w].machine.completed_total > 0

\* the aggregate ran against a warehouse without an evaluation table: the
\* source reviews are counted, no evaluation is, and both ratios are 0.0
C17_Witness ==
    \E w \in Workers :
        /\ MetricsReturned(req[w])
        /\ req[w].use_databricks
        /\ ~evalTableExists
        /\ req[w].result.total_reviews = PyInt(3)
        /\ req[w].result.completed_today = PyInt(0)
        /\ req[w].result.average_accuracy = PyFloat(0)
        /\ req[w].result.corrections_per_review = PyFloat(0)

(***************************************************************************)
(* The upsert builder                                                      *)
(***************************************************************************)
\* C18: the hash key the upsert builder computes depends on the response id
\* and the model version and on nothing else: two calls with the same pair
\* give the same key, whatever human and machine evaluations they are given.
C18_KeyOfIdAndModelOnly ==
    ( /\ Returned("write_human_evaluation_optimized")
      /\ pure.arg[1].survey_response_id = pure.arg[2].survey_response_id
      /\ pure.arg[1].evaluation_model = pure.arg[2].evaluation_model )
    => pure.out[1].evaluation_hash_key = pure.out[2].evaluation_hash_key

\* two calls for S1 and one model version, with human evaluations that differ
\* in the irrelevant flag and machine evaluations that differ, gave one key
C18_Witness ==
    /\ Returned("write_human_evaluation_optimized")
    /\ pure.arg[1].survey_response_id = <<"S1">>
    /\ pure.arg[2].survey_response_id = <<"S1">>
    /\ pure.arg[1].evaluation_model = pure.arg[2].evaluation_model
    /\ pure.arg[1].human_eval_data.irrelevant
          # pure.arg[2].human_eval_data.irrelevant
    /\ pure.arg[1].machine_eval_data # pure.arg[2].machine_eval_data
    /\ pure.out[1].evaluation_hash_key = pure.out[2].evaluation_hash_key
    /\ pure.out[1] # pure.out[2]

\* the relevancy the builder wrote in call k, as the warehouse stores it
WrittenRelevancy(k) == SqlEval(pure.out[k].response_relevancy).v

\* the irrelevant flag the read side gives a source row of that relevancy
ReadBack(relevancy) ==
    convert_flattened_rows_to_review(
        <<FlatRow(relevancy, PyStr(<<"Food">>), PyFloat(0),
                  PyStr(<<"Quality">>), PyFloat(0))>>
    ).sentiment_analysis.irrelevant

\* C20: the builder writes "nonsense or irrelevant" when the human flagged the
\* review irrelevant, otherwise "profane but useful" when flagged profane,
\* otherwise "useful"; and for each of the four combinations of the two flags
\* the read-side rule applied to the written string gives back the irrelevant
\* flag.
C20_WrittenRelevancyReadsBack ==
    Returned("write_human_evaluation_optimized") =>
        \A k \in 1..2 :
            LET irrelevant == pure.arg[k].human_eval_data.irrelevant.v
                profane == pure.arg[k].human_eval_data.profane.v
            IN /\ WrittenRelevancy(k) =
                     IF irrelevant THEN STR_nonsense_or_irrelevant
                     ELSE IF profane THEN STR_profane_but_useful
                     ELSE STR_useful
               /\ ReadBack(WrittenRelevancy(k)) = PyBool(irrelevant)

\* the four combinations of the flags were written: here irrelevant and
\* profane in the first call, profane only in the second
C20_Witness ==
    /\ Returned("write_human_evaluation_optimized")
    /\ pure.arg[1].human_eval_data.irrelevant = PyBool(TRUE)
    /\ pure.arg[1].human_eval_data.profane = PyBool(TRUE)
    /\ pure.arg[2].human_eval_data.irrelevant = PyBool(FALSE)
    /\ pure.arg[2].human_eval_data.profane = PyBool(TRUE)
    /\ ReadBack(WrittenRelevancy(1)) = PyBool(TRUE)
    /\ ReadBack(WrittenRelevancy(2)) = PyBool(FALSE)

C21_CreatedAtKept ==
    [][\A w \in Workers :
         MergeExecutedBy(w) =>
            LET before == EvalRowsOf(evalTable, req[w].id)
                after == EvalRowsOf(evalTable', req[w].id)
            IN /\ Len(after) = 1
               /\ after[1].updated_at = PyDateTime(clock')
               /\ HumanColumns(after[1]) = HandedColumns(req[w].human)
               /\ IF before = <<>>
                  THEN after[1].created_at = after[1].updated_at
                  ELSE /\ after[1].created_at = before[1].created_at
                       /\ after[1].created_at.v < after[1].updated_at.v
               /\ \A i \in DOMAIN evalTable' :
                     evalTable'[i].created_at.v <= evalTable'[i].updated_at.v]_vars

\* S1 was validated twice: its row was updated after it was created
C21_Witness ==
    LET rows == EvalRowsOf(evalTable, <<"S1">>)
    IN /\ Len(rows) = 1
       /\ Len(merged[<<"S1">>]) = 2
       /\ rows[1].created_at.v < rows[1].updated_at.v

MachineColumnNames ==
    {"machine_eval_profane", "machine_eval_rewritten_comment",
     "machine_eval_irrelevant", "machine_eval_overall_sentiment_label",
     "machine_eval_overall_sentiment_score",
     "machine_eval_category_sentiments"}

\* the machine-eval columns of a row
MachineColumns(row) == [c \in MachineColumnNames |-> row[c]]

\* the machine-eval columns of the USING row of request r
SuppliedMachineColumns(r) ==
    [c \in MachineColumnNames |->
        SqlEval(UpsertSource(r.id, r.human, r.machine, LEGACY_MODEL)[c])]

\* C22 as claimed: when an id that has a row is accepted again, the row's
\* machine-eval columns become the machine-eval values of that validation.
C22_MachineOverwritten ==
    [][\A w \in Workers :
         ( /\ MergeExecutedBy(w)
           /\ IsAccept(req[w])
           /\ EvalRowsOf(evalTable, req[w].id) # <<>> )
         => MachineColumns(EvalRowsOf(evalTable', req[w].id)[1])
               = SuppliedMachineColumns(req[w])]_vars

\* C22: the machine-eval columns of an evaluation row are written once: the
\* MERGE that inserts the row stores the machine-eval values of that
\* validation, and a MERGE for an id that has a row, accept or override,
\* leaves the row's machine-eval columns as they were.
C22_MachineWrittenOnce ==
    [][\A w \in Workers :
         MergeExecutedBy(w) =>
            LET before == EvalRowsOf(evalTable, req[w].id)
                after == EvalRowsOf(evalTable', req[w].id)
            IN MachineColumns(after[1])
                  = IF before = <<>> THEN SuppliedMachineColumns(req[w])
                    ELSE MachineColumns(before[1])]_vars

\* S1 was accepted with a row in place: the row still has the machine-eval
\* values of the first validation, which are not those of the accept
C22_Witness ==
    \E w \in Workers :
        /\ IsAccept(req[w]) /\ req[w].pc = "done" /\ req[w].id = <<"S1">>
        /\ ~IsError(req[w].result)
        /\ Len(merged[<<"S1">>]) = 2
        /\ LET row == EvalRowsOf(evalTable, <<"S1">>)[1]
               Supplied(k) ==
                  SuppliedMachineColumns(
                     [id |-> <<"S1">>, human |-> merged[<<"S1">>][k].human,
                      machine |-> merged[<<"S1">>][k].machine])
           IN /\ MachineColumns(row) = Supplied(1)
              /\ MachineColumns(row) # Supplied(2)


(* The hash key of a row *)
\* C23: in every reachable state each evaluation row's evaluation_hash_key is
\* the hash of the row's own survey_response_id and evaluation_model, also
\* after one response id was written under two model versions.
C23_HashKeyOfOwnPair ==
    \A i \in DOMAIN evalTable :
       evalTable[i].evaluation_hash_key
          = PyStr(evaluation_hash_key(evalTable[i].survey_response_id.v,
                                      evalTable[i].evaluation_model.v))


(* The accuracy ratios *)
\* a score as the ratios count it: a missing one is 0
ScoreOrZero(x) == IF x = None THEN 0 ELSE x.v

\* the (source row, evaluation row) pairs of one response id in a table
JoinedPairs(table) ==
    {p \in (DOMAIN BackendRows) \X (DOMAIN table) :
        BackendRows[p[1]].response_id = table[p[2]].survey_response_id}

\* |original overall score - human overall score| of a joined pair
PairDistance(table, p) ==
    LET orig == ScoreOrZero(BackendRows[p[1]].overall_sentiment_score)
        human == ScoreOrZero(table[p[2]].human_eval_overall_sentiment_score)
    IN IF orig < human THEN human - orig ELSE orig - human

\* C24: accuracy is the number of joined (source row, evaluation row) pairs
\* whose overall scores are at most 1 apart over the number of joined pairs,
\* an id with N source rows giving N pairs and a missing score counting as 0;
\* corrections per review is the number of joined pairs whose scores differ
\* over the number of distinct evaluated ids; the returned figures are these
\* ratios rounded to 2 and to 1 places, and 0 when nothing joins.
C24_AccuracyRatios ==
    (pure.op = "get_metrics_data" /\ pure.returned) =>
       LET table == pure.arg
           pairs == JoinedPairs(table)
           close == {p \in pairs : PairDistance(table, p) <= 1}
           differ == {p \in pairs : PairDistance(table, p) # 0}
           ids == {table[i].survey_response_id.v : i \in DOMAIN table}
           counts == pure.out.counts
           metrics == pure.out.metrics
       IN /\ \A id \in ids :
                Cardinality({p \in pairs :
                                table[p[2]].survey_response_id = PyStr(id)})
                   = Len(RowsOf(id))
          /\ counts.total_comparisons = Cardinality(pairs)
          /\ counts.accurate_predictions = Cardinality(close)
          /\ counts.total_corrections = Cardinality(differ)
          /\ counts.completed_total = Cardinality(ids)
          /\ metrics.average_accuracy
                = IF pairs = {} THEN PyFloat(0)
                  ELSE Round2(Cardinality(close), Cardinality(pairs))
          /\ metrics.corrections_per_review
                = IF pairs = {} THEN PyFloat(0)
                  ELSE Round1(Cardinality(differ), Cardinality(ids))

\* two evaluated ids, one with two source rows and a missing human score,
\* one with a missing source score: three pairs, one of them close, all three
\* corrections
C24_Witness ==
    /\ pure.op = "get_metrics_data" /\ pure.returned
    /\ Len(pure.arg) = 2
    /\ pure.arg[1] = MetricRow(<<"S1">>, None)
    /\ pure.arg[2] = MetricRow(<<"S3">>, PyInt(2))
    /\ pure.out.counts.total_comparisons = 3
    /\ pure.out.counts.accurate_predictions = 0
    /\ pure.out.counts.total_corrections = 3
    /\ pure.out.counts.completed_total = 2
    /\ pure.out.metrics.average_accuracy = PyFloat(0)
    /\ pure.out.metrics.corrections_per_review = PyFloat(150)


(* Failing sub-queries of the metrics aggregate *)
\* a metrics request that get_metrics_data answered
AggregateReturned(r) == MetricsReturned(r) /\ r.human # None

\* C25: when sub-queries of the metrics aggregate fail, only the metrics
\* computed from them are zero: a total count that did not fail gives
\* total_reviews and total_random_sample, a recommended count that did not
\* fail gives recommended_reviews, an evaluated count that did not fail
\* gives completed_today, and the aggregate returns.
C25_OnlyFailedMetricDegrades ==
    \A w \in Workers :
       AggregateReturned(req[w]) =>
          LET failed == req[w].human.failed
              metrics == req[w].result
          IN /\ "source" \notin failed =>
                   /\ metrics.total_reviews = PyInt(Cardinality(SourceIds))
                   /\ metrics.total_random_sample
                         = PyInt(Min(20, Cardinality(SourceIds)))
             /\ "recommended" \notin failed =>
                   metrics.recommended_reviews = PyInt(RecommendedCount)
             /\ ("evaluated" \notin failed /\ req[w].machine # None) =>
                   metrics.completed_today
                      = PyInt(req[w].machine.completed_total)


(* Quotes in the SQL text *)
\* C26: every string the upsert builder places in the SQL text (response id,
\* model version, question text, labels, rewritten comment, store key,
\* serialized category data) is there with each single quote doubled: every
\* quoted literal of the USING row parses as one literal, and the id, the
\* model version and the question text read back as the strings handed in.
C26_QuotesDoubled ==
    Returned("write_human_evaluation_optimized") =>
       \A k \in 1..2 :
          /\ UpsertWellFormed(pure.out[k])
          /\ SqlEval(pure.out[k].survey_response_id)
                = PyStr(pure.arg[k].survey_response_id)
          /\ SqlEval(pure.out[k].evaluation_model)
                = PyStr(pure.arg[k].evaluation_model)
          /\ SqlEval(pure.out[k].question_response)
                = pure.arg[k].human_eval_data.question_response


(* Mock data and the evaluation table *)
\* C27: every evaluation row a validate request wrote carries values derived
\* from warehouse data for its response id: the id is one of the source
\* table and the question text is that of its source rows; no mock review
\* is persisted, whatever warehouse reads failed before the write.
C27_NoMockPersisted ==
    \A i \in DOMAIN evalTable :
       LET id == evalTable[i].survey_response_id.v
       IN /\ id \in SourceIds
          /\ evalTable[i].question_response = RowsOf(id)[1].question_response
          /\ \A k \in DOMAIN MOCK_REVIEWS : MOCK_REVIEWS[k].response_id # id


(* Accepting an evaluated review *)
\* the columns of an evaluation row that hold the human evaluation
StoredEvaluation(row) ==
    [c \in MatchedColumns \ {"evaluation_model"} |-> row[c]]

\* C28: accept is idempotent on the stored human evaluation: an accept of a
\* response id that has an evaluation row leaves the row's human-eval columns,
\* response_relevancy, overall sentiment label and score and
\* category_subcategory_list as they were before the accept.
C28_AcceptIdempotent ==
    [][\A w \in Workers :
         ( /\ MergeExecutedBy(w)
           /\ IsAccept(req[w])
           /\ EvalRowsOf(evalTable, req[w].id) # <<>> )
         => StoredEvaluation(EvalRowsOf(evalTable', req[w].id)[1])
               = StoredEvaluation(EvalRowsOf(evalTable, req[w].id)[1])]_vars


(* The relevancy an accept writes *)
\* C29: accepting an unevaluated review writes the relevancy class of its
\* source rows: "useful" is written as "useful", "profane but useful" as
\* "profane but useful", "nonsense or irrelevant" as "nonsense or
\* irrelevant", whatever the source profanity flag is.
C29_AcceptKeepsRelevancy ==
    Returned("validate_review") =>
       pure.out.response_relevancy = pure.arg[1].response_relevancy


(* Store and visit of an inserted row *)
\* C30: when an unevaluated review of the source table is validated, the
\* inserted evaluation row has the store key and the visit timestamp of the
\* review's source rows; a visit timestamp that is not NULL in the source is
\* not written as NULL.
C30_StoreAndVisitKept ==
    [][\A w \in Workers :
         ( /\ MergeExecutedBy(w)
           /\ req[w].id \in SourceIds
           /\ EvalRowsOf(evalTable, req[w].id) = <<>> )
         => LET row == EvalRowsOf(evalTable', req[w].id)[1]
                first_row == RowsOf(req[w].id)[1]
            IN /\ row.store_key = first_row.store_key
               /\ row.visit_datetime = first_row.visit_datetime]_vars

====
